---- MODULE Spec2Model ----
(***************************************************************************)
(* repostruc: the analysis-and-rendering pipeline.                         *)
(*                                                                         *)
(*   RepoStructure.analyze -> Analyzer.analyze (one loop iteration per     *)
(*   filtered path) -> RepoStructure.generateOutputFromAnalysis ->         *)
(*   TextFormatter / JSONFormatter / MarkdownFormatter .format             *)
(*                                                                         *)
(* A relative path "a/b/c" is the sequence of its segments <<"a","b","c">>;*)
(* path.join(parent, name) is Append, file.split(path.sep) is the sequence *)
(* itself and currentPath.split('/').length is Len (POSIX separators).     *)
(*                                                                         *)
(* The nested Map of the structure tree is kept as the sequence of its     *)
(* node paths in creation order: the children of a node, in Map iteration  *)
(* order, are the nodes one segment longer than it, in sequence order.     *)
(***************************************************************************)
EXTENDS Integers, Sequences, FiniteSets, TLC

\* ------------------------------------------------------------------------
\* Bounds of the explored inputs
\* ------------------------------------------------------------------------

\* longest Walker result explored in the "repo" directory
MaxFiles == 3

\* longest Walker result explored in the "flat" directory
MaxFlat == 11

\* largest file size reported by stat
MaxSize == 2

\* largest finite --depth explored
MaxDepthOpt == 2

\* most analyze calls made on one RepoStructure instance
MaxCalls == 2

\* ------------------------------------------------------------------------
\* Program constants
\* ------------------------------------------------------------------------

\* maxDepth when neither the CLI nor the config sets a depth
Infinity == 999

\* stats.largestFiles.slice(0, 10)
LargestLimit == 10

DEFAULT_OUTPUT == "repostruc-output.txt"

CONFIG_FILE == ".repostrucrc.json"

\* the patterns ignored unless the default patterns are disabled
DEFAULT_IGNORE ==
    << "node_modules/**", ".git/**", "dist/**", "build/**", "*.log",
       ".DS_Store", "coverage/**", ".next/**", ".cache/**", "*.tmp", "*.temp",
       "*.swp", "*.swo", "Thumbs.db", ".vscode/**", ".idea/**", "*.sublime-*",
       ".env*", "package-lock.json", "yarn.lock", "pnpm-lock.yaml",
       ".nyc_output/**", ".pytest_cache/**", "__pycache__/**", "*.pyc",
       ".mypy_cache/**", ".tox/**", "venv/**", "env/**", ".virtualenv/**",
       "target/**", "out/**", "bin/**", "obj/**", ".gradle/**", ".mvn/**",
       "*.class", "*.jar", "*.war", "*.ear" >>

FILE_CATEGORIES ==
    [ code    |-> {".js", ".jsx", ".ts", ".tsx", ".py", ".java", ".cpp", ".c",
                   ".h", ".go", ".rs", ".php", ".rb", ".swift", ".kt"},
      web     |-> {".html", ".css", ".scss", ".sass", ".less"},
      data    |-> {".json", ".xml", ".yaml", ".yml", ".toml", ".csv"},
      docs    |-> {".md", ".txt", ".rst", ".tex", ".doc", ".docx", ".pdf"},
      config  |-> {".config", ".conf", ".ini", ".cfg", ".rc"},
      image   |-> {".jpg", ".jpeg", ".png", ".gif", ".svg", ".webp", ".ico"},
      media   |-> {".mp4", ".mp3", ".wav", ".avi", ".mov", ".webm"},
      archive |-> {".zip", ".tar", ".gz", ".rar", ".7z", ".bz2"} ]

\* Object.entries(FILE_CATEGORIES): the categories in declaration order
CategoryOrder ==
    <<"code", "web", "data", "docs", "config", "image", "media", "archive">>

\* ------------------------------------------------------------------------
\* The directories analysed (the filesystem the Walker and stat see)
\* ------------------------------------------------------------------------

\* "repo": a small tree, every Walker order
RepoPaths ==
    { <<"a">>, <<"a", "a">>, <<"a", "b">>, <<"a", "c">>, <<"a", "b", "c">> }

\* "flat": one level of regular files, enough of them to overflow largestFiles
FlatPaths ==
    << <<"f01.js">>, <<"f02.MD">>, <<"f03">>, <<"f04.xyz">>, <<"f05.js">>,
       <<"f06.png">>, <<"f07.md">>, <<"f08.JS">>, <<"f09">>, <<"f10.zip">>,
       <<"f11.js">>, <<"f12.css">>, <<"f13.md">> >>

\* "mini": a single entry, every combination of display flags
MiniPaths == { <<"a">> }

\* "cli": one entry next to the output files of earlier runs, every
\* explored command line and config file
CliPaths == << <<"a">>, <<"out.txt">>, <<"repostruc-output.txt">> >>

\* "save": two entries, in either order, for the runs of saveOutput
SavePaths == { <<"b">>, <<"a">> }

Dirs == {"repo", "flat", "mini", "cli", "init", "save", "tree"}

VARIABLES
    configFile,     \* the file CONFIG_FILE of the working directory
    console,        \* what the commands wrote with console.log / console.error
    exitCode,       \* the exit code of the process
    dir,            \* the directory passed to analyze / saveOutput
    argv,           \* the command line: the value given to each option
    config,         \* RepoStructure.config (loadConfig's result)
    configWarnings, \* ConfigManager.warnings after loadConfig
    settings,       \* RepoStructure.settings (applyConfiguration's result)
    rsErrors,       \* RepoStructure.errors
    rsWarnings,     \* RepoStructure.warnings
    pc,             \* position in RepoStructure: "ready" | "loop" | "analyzed" | "rendered" | "saved" | "printed" | "done"; in the commands: "init" | "check" | "exited"
    ig,             \* Analyzer.ig: the rules added to the ignore instance
    errors,         \* Analyzer.errors
    warnings,       \* Analyzer.warnings
    gitQuery,       \* how getGitStatus() ended in this analyze: "none" (not called) | "ok" | "failed"
    gitStatus,      \* the status map of analyze
    files,          \* filteredFiles
    idx,            \* position of the for-of loop in filteredFiles (1-based)
    stats,          \* the stats record of analyze
    structureMap,   \* the structure tree
    fileInfoMap,    \* the entry map
    statFailed,     \* paths the loop left at "continue" after a stat failure
    droppedEmpty,   \* paths the loop left at "continue" as empty directories
    output,         \* what formatter.format returned
    calls,          \* how many times analyze was called on the RepoStructure
    savedFile,      \* what saveOutput wrote to settings.outputFile
    stdout,         \* what saveOutput wrote to process.stdout
    chalkColors     \* whether chalk emits color codes in this process

vars == << configFile, console, exitCode, dir, argv, config, configWarnings, settings, rsErrors, rsWarnings,
           pc, ig, errors, warnings, gitQuery, gitStatus, files, idx, stats,
           structureMap, fileInfoMap, statFailed, droppedEmpty, output,
           calls, savedFile, stdout, chalkColors >>

\* ------------------------------------------------------------------------
\* Helpers on sequences and paths
\* ------------------------------------------------------------------------

Range(s) == { s[i] : i \in DOMAIN s }

IsProperPrefix(p, q) == Len(p) < Len(q) /\ SubSeq(q, 1, Len(p)) = p

Parent(p) == SubSeq(p, 1, Len(p) - 1)

Basename(p) == p[Len(p)]

\* the sequences without repetition over a set, up to a length
RECURSIVE DistinctSeqs(_, _)
DistinctSeqs(S, n) ==
    IF n = 0 THEN { <<>> }
    ELSE LET shorter == DistinctSeqs(S, n - 1)
             longest == { t \in shorter : Len(t) = n - 1 }
         IN  shorter \cup
             UNION { { Append(s, x) : x \in S \ Range(s) } : s \in longest }

\* ------------------------------------------------------------------------
\* utils.js / path
\* ------------------------------------------------------------------------

\* path.extname on the names of the explored directories
ExtName(name) ==
    CASE name \in {"f01.js", "f05.js", "f11.js"} -> ".js"
      [] name = "f08.JS" -> ".JS"
      [] name = "f02.MD" -> ".MD"
      [] name \in {"f07.md", "f13.md"} -> ".md"
      [] name = "f04.xyz" -> ".xyz"
      [] name = "f06.png" -> ".png"
      [] name = "f10.zip" -> ".zip"
      [] name = "f12.css" -> ".css"
      [] name \in {"out.txt", "repostruc-output.txt"} -> ".txt"
      [] OTHER -> ""

\* String.prototype.toLowerCase on the extensions of the explored directories
ToLowerCase(s) ==
    CASE s = ".JS" -> ".js"
      [] s = ".MD" -> ".md"
      [] OTHER -> s

\* getFileCategory: the first category whose list includes the lower-cased
\* extension, else 'other'
RECURSIVE CategoryFrom(_, _)
CategoryFrom(extension, i) ==
    IF i > Len(CategoryOrder) THEN "other"
    ELSE IF ToLowerCase(extension) \in FILE_CATEGORIES[CategoryOrder[i]]
         THEN CategoryOrder[i]
         ELSE CategoryFrom(extension, i + 1)

\* a lookup that compares the extension as written
getFileCategory_CaseSensitive(extension) ==
    IF \E c \in DOMAIN FILE_CATEGORIES : extension \in FILE_CATEGORIES[c]
    THEN CategoryFrom(extension, 1)
    ELSE "other"

getFileCategory(extension) == CategoryFrom(extension, 1)

\* ------------------------------------------------------------------------
\* The environment: Walker results and stat / readdir outcomes
\* ------------------------------------------------------------------------

\* fast-glob returns each matching path once (unique: true), in an order the
\* code does not control
WalkerResults(d) ==
    CASE d = "repo" -> DistinctSeqs(RepoPaths, MaxFiles)
      [] d = "flat" -> { SubSeq(FlatPaths, 1, MaxFlat) }
      [] d = "mini" -> DistinctSeqs(MiniPaths, 1)
      [] d = "cli"  -> { CliPaths }
      [] d = "save" -> DistinctSeqs(SavePaths, 2)
      [] d = "tree" -> DistinctSeqs(RepoPaths, MaxFiles)

HasDescendantIn(file, fs) == \E i \in DOMAIN fs : IsProperPrefix(file, fs[i])

\* the mtime stat reports, as the date and time parts of its ISO string
StatTime == [date |-> "2024-05-01", time |-> "10:00:00.000Z"]

\* the sizes stat reports for files: in the flat directory the smallest and
\* the largest size, elsewhere the largest
FileSizes(d) == IF d = "flat" THEN { 1, MaxSize } ELSE { MaxSize }

\* what fsPromises.stat(fullPath) can answer for a filtered path: a
\* rejection, a regular file (only when the Walker found nothing below it),
\* or a directory
StatResults(d, file, fs) ==
    LET failure == [ok |-> FALSE, isDirectory |-> FALSE, size |-> 0,
                    mtime |-> StatTime, mode |-> 0]
        regular == { [ok |-> TRUE, isDirectory |-> FALSE, size |-> n,
                      mtime |-> StatTime, mode |-> 33188] :
                       n \in FileSizes(d) }
        folder  == [ok |-> TRUE, isDirectory |-> TRUE, size |-> MaxSize,
                    mtime |-> StatTime, mode |-> 16877]
    IN  IF \/ d = "flat" /\ file # FlatPaths[1]
           \/ d = "cli" /\ file # CliPaths[1]
        THEN regular
        ELSE IF HasDescendantIn(file, fs)
             THEN { failure, folder }
             ELSE { failure, folder } \cup regular

\* what fsPromises.readdir(fullPath) can answer for a directory: entries,
\* no entry (only when the Walker found nothing below it), or a rejection
ReaddirResults(file, fs) ==
    IF HasDescendantIn(file, fs) THEN {"entries", "error"}
    ELSE {"entries", "empty", "error"}

\* ------------------------------------------------------------------------
\* Analyzer.analyze: the statistics and the structure tree
\* ------------------------------------------------------------------------

EmptyStats(nErrors, nWarnings) ==
    [ totalFiles   |-> 0,
      totalDirs    |-> 0,
      totalSize    |-> 0,
      byExtension  |-> << >>,
      byCategory   |-> << >>,
      largestFiles |-> << >>,
      errors       |-> nErrors,
      warnings     |-> nWarnings ]

\* a tally that starts the key over on every file
Tally_StartsOver(tally, key, n) ==
    [ k \in DOMAIN tally \cup {key} |->
        IF k = key THEN [count |-> 1, size |-> n] ELSE tally[k] ]

\* tally[key] = tally[key] || {count: 0, size: 0}; count++; size += n
Tally(tally, key, n) ==
    LET old == IF key \in DOMAIN tally THEN tally[key]
               ELSE [count |-> 0, size |-> 0]
    IN  [ k \in DOMAIN tally \cup {key} |->
            IF k = key THEN [count |-> old.count + 1, size |-> old.size + n]
            ELSE tally[k] ]

\* one step of a stable descending sort: the item settles behind every
\* element at least as large
RECURSIVE InsertBySize(_, _)
InsertBySize(sorted, item) ==
    IF sorted = << >> THEN << item >>
    ELSE IF sorted[Len(sorted)].size >= item.size
         THEN Append(sorted, item)
         ELSE Append(InsertBySize(SubSeq(sorted, 1, Len(sorted) - 1), item),
                     sorted[Len(sorted)])

\* Array.prototype.sort((a, b) => b.size - a.size): stable (ES2019), so
\* elements of equal size keep their order
RECURSIVE SortBySizeDesc(_)
SortBySizeDesc(s) ==
    IF s = << >> THEN << >>
    ELSE InsertBySize(SortBySizeDesc(SubSeq(s, 1, Len(s) - 1)), s[Len(s)])

\* Array.prototype.slice(0, n)
Slice(s, n) == SubSeq(s, 1, IF Len(s) < n THEN Len(s) ELSE n)

\* a tracker that forgets to sort after the push
TrackLargest_Unsorted(largest, file, size) ==
    Slice(Append(largest, [path |-> file, size |-> size]), LargestLimit)

\* a tracker that puts the new file in front of the list before sorting
TrackLargest_NewestFirst(largest, file, size) ==
    Slice(SortBySizeDesc(<< [path |-> file, size |-> size] >> \o largest),
          LargestLimit)

\* push, sort, slice(0, 10)
TrackLargest(largest, file, size) ==
    Slice(SortBySizeDesc(Append(largest, [path |-> file, size |-> size])),
          LargestLimit)

\* a statistics update that forgets to count directories
UpdateStats_DirsUncounted(st, file, isDirectory, size) ==
    IF isDirectory
    THEN st
    ELSE [st EXCEPT !.totalFiles   = @ + 1,
                    !.totalSize    = @ + size,
                    !.largestFiles = TrackLargest(@, file, size)]

\* a statistics update that adds the size of a directory to the total
UpdateStats_DirSizeCounted(st, file, isDirectory, size) ==
    IF isDirectory
    THEN [st EXCEPT !.totalDirs = @ + 1, !.totalSize = @ + size]
    ELSE LET name == Basename(file)
             ext  == IF ExtName(name) = "" THEN "(no extension)" ELSE ExtName(name)
         IN  [st EXCEPT !.totalFiles   = @ + 1,
                        !.totalSize    = @ + size,
                        !.byExtension  = Tally(@, ext, size),
                        !.byCategory   = Tally(@, getFileCategory(ext), size),
                        !.largestFiles = TrackLargest(@, file, size)]

\* the statistics update for one accepted entry
UpdateStats(st, file, isDirectory, size) ==
    IF isDirectory
    THEN [st EXCEPT !.totalDirs = @ + 1]
    ELSE LET name == Basename(file)
             ext  == IF ExtName(name) = "" THEN "(no extension)" ELSE ExtName(name)
         IN  [st EXCEPT !.totalFiles   = @ + 1,
                        !.totalSize    = @ + size,
                        !.byExtension  = Tally(@, ext, size),
                        !.byCategory   = Tally(@, getFileCategory(ext), size),
                        !.largestFiles = TrackLargest(@, file, size)]

\* a builder that sets a node for the whole path only
InsertPath_LeafOnly(map, parts, i) ==
    IF parts \in Range(map) THEN map ELSE Append(map, parts)

\* parts.forEach: a node for every prefix of the path that has none yet
RECURSIVE InsertPath(_, _, _)
InsertPath(map, parts, i) ==
    IF i > Len(parts) THEN map
    ELSE LET node == SubSeq(parts, 1, i)
         IN  InsertPath(IF node \in Range(map) THEN map ELSE Append(map, node),
                        parts, i + 1)

\* fileInfoMap.set(file, fileInfo)
MapSet(map, key, value) ==
    [ k \in DOMAIN map \cup {key} |-> IF k = key THEN value ELSE map[k] ]

StatWarning(file) == << "Could not stat file", file >>

ReaddirWarning(file) == << "Could not read directory", file >>

\* ------------------------------------------------------------------------
\* JavaScript values of the options and config objects
\* ------------------------------------------------------------------------

Undefined == [t |-> "undefined"]

Null == [t |-> "null"]

Bool(b) == [t |-> "boolean", b |-> b]

Num(n) == [t |-> "number", n |-> n]

Str(s) == [t |-> "string", s |-> s]

Arr(items) == [t |-> "array", items |-> items]

\* ToBoolean
Truthy(x) ==
    CASE x.t = "undefined" -> FALSE
      [] x.t = "null"      -> FALSE
      [] x.t = "boolean"   -> x.b
      [] x.t = "number"    -> x.n # 0
      [] x.t = "string"    -> x.s # ""
      [] x.t = "array"     -> TRUE

\* x || y
Or(x, y) == IF Truthy(x) THEN x ELSE y

\* x !== false
IsNotFalse(x) == ~(x.t = "boolean" /\ ~x.b)

\* obj.key: undefined when the object has no such property
Get(obj, key) == IF key \in DOMAIN obj THEN obj[key] ELSE Undefined

\* the value as the rest of the program reads it
Native(x) ==
    CASE x.t = "boolean" -> x.b
      [] x.t = "number"  -> x.n
      [] x.t = "string"  -> x.s
      [] x.t = "array"   -> x.items

\* ------------------------------------------------------------------------
\* The command line (commander program options)
\* ------------------------------------------------------------------------

Formats == {"txt", "json", "markdown"}

FlagNames == {"showStats", "showFiles", "showSizes", "showTimestamps",
              "showPermissions", "showGitStatus"}

\* the options of the program, by the property name commander derives from
\* the long flag; "noGitignore" stands for --no-gitignore, and so on
OptionNames ==
    { "output", "ignore", "include", "stats", "files", "sizes", "noGitignore",
      "noDefaultPatterns", "hidden", "depth", "format", "groupByType",
      "timestamps", "permissions", "excludeEmpty", "followSymlinks",
      "gitStatus", "noColor", "colorFile", "noPrint", "saveConfig", "debug" }

\* a command line: for each option the text given with it (Str), that the
\* boolean flag was given (Bool(TRUE)), or Undefined when it was not given
Argv(given) ==
    [ k \in OptionNames |-> IF k \in DOMAIN given THEN given[k] ELSE Undefined ]

\* the boolean flags of a set, given
FlagsGiven(names) == [ k \in names |-> Bool(TRUE) ]

\* parseInt on the depth texts explored
ParseInt(text) == CHOOSE n \in 0 .. MaxDepthOpt : ToString(n) = text

\* program.parse(): an option declared with a default value has it when the
\* flag is not given; --no-x defines the property x, true unless the flag is
\* given; every other option is undefined unless given
ParseArgs(a) ==
    [ output          |-> IF a.output.t = "undefined" THEN Str(DEFAULT_OUTPUT)
                          ELSE a.output,
      ignore          |-> a.ignore,
      include         |-> a.include,
      stats           |-> a.stats,
      files           |-> a.files,
      sizes           |-> a.sizes,
      gitignore       |-> Bool(a.noGitignore.t = "undefined"),
      defaultPatterns |-> Bool(a.noDefaultPatterns.t = "undefined"),
      hidden          |-> a.hidden,
      depth           |-> IF a.depth.t = "undefined" THEN Undefined
                          ELSE Num(ParseInt(a.depth.s)),
      format          |-> IF a.format.t = "undefined" THEN Str("txt")
                          ELSE a.format,
      groupByType     |-> a.groupByType,
      timestamps      |-> a.timestamps,
      permissions     |-> a.permissions,
      excludeEmpty    |-> a.excludeEmpty,
      followSymlinks  |-> a.followSymlinks,
      gitStatus       |-> a.gitStatus,
      color           |-> Bool(a.noColor.t = "undefined"),
      colorFile       |-> a.colorFile,
      print           |-> Bool(a.noPrint.t = "undefined"),
      saveConfig      |-> a.saveConfig,
      debug           |-> a.debug ]

\* the option a display flag of the settings is set by
OptionOf(flag) ==
    CASE flag = "showStats"       -> "stats"
      [] flag = "showFiles"       -> "files"
      [] flag = "showSizes"       -> "sizes"
      [] flag = "showTimestamps"  -> "timestamps"
      [] flag = "showPermissions" -> "permissions"
      [] flag = "showGitStatus"   -> "gitStatus"
      [] flag = "groupByType"     -> "groupByType"

\* the command line --format <format> [--exclude-empty] [--depth <maxDepth>]
\* with the flags of the display settings that are on
MakeArgv(excludeEmpty, maxDepth, format, on) ==
    Argv( [format |-> Str(format)]
          @@ (IF maxDepth = Infinity THEN << >>
              ELSE [depth |-> Str(ToString(maxDepth))])
          @@ FlagsGiven({ OptionOf(f) : f \in on }
                        \cup (IF excludeEmpty THEN {"excludeEmpty"} ELSE {})) )

Depths == (1 .. MaxDepthOpt) \cup {Infinity}

\* the command lines explored in the "cli" directory
CliArgvs ==
    { Argv(o @@ f @@ d @@ FlagsGiven(flags)) :
        o \in { << >>, [output |-> Str("out.txt")] },
        f \in { << >>, [format |-> Str("json")] },
        d \in { << >>, [depth |-> Str("0")], [depth |-> Str("1")] },
        flags \in SUBSET {"stats", "excludeEmpty", "noGitignore",
                          "noDefaultPatterns"} }
    \cup { Argv([ignore |-> Str("b,c")]) }

\* the command lines explored in each directory
ArgvIn(d) ==
    CASE d = "repo" ->
           { MakeArgv(FALSE, m, f, on) :
               m \in Depths, f \in Formats, on \in { {}, {"showSizes"} } }
           \cup
           { MakeArgv(TRUE, Infinity, f, on) :
               f \in Formats, on \in { {}, {"showSizes"} } }
      [] d = "flat" ->
           { MakeArgv(TRUE, Infinity, "txt", {"showStats"}) }
      [] d = "mini" ->
           { MakeArgv(e, Infinity, f, on) :
               e \in BOOLEAN, f \in Formats,
               on \in SUBSET (FlagNames \cup {"groupByType"}) }
      [] d = "cli" -> CliArgvs
      [] d = "tree" ->
           { MakeArgv(e, Infinity, "txt", on) :
               e \in BOOLEAN, on \in { {}, {"showGitStatus"} } }
      [] d = "save" ->
           { Argv(f @@ FlagsGiven(flags)) :
               f \in { << >>, [format |-> Str("json")],
                       [format |-> Str("markdown")] },
               flags \in SUBSET {"files", "sizes", "colorFile", "noColor",
                                 "noPrint", "excludeEmpty"} }

\* ------------------------------------------------------------------------
\* ConfigManager
\* ------------------------------------------------------------------------

\* the diagnostics are pairs: the message text and the path it names (none
\* for these three)
ConfigWarning == << "Warning: Failed to load config file", << >> >>

SetupError == << "Error setting up ignore patterns", << >> >>

GitWarning ==
    << "Git status unavailable: Not a git repository or git not installed", << >> >>

\* the config file on disk: absent, present with content JSON.parse rejects,
\* or present with the object it parses to
NoConfigFile == [exists |-> FALSE, parses |-> FALSE, content |-> << >>]

BrokenConfigFile == [exists |-> TRUE, parses |-> FALSE, content |-> << >>]

ConfigFile(content) == [exists |-> TRUE, parses |-> TRUE, content |-> content]

\* Default configuration
DEFAULT_CONFIG ==
    [ output            |-> Str("repostruc-output.txt"),
      stats             |-> Bool(FALSE),
      files             |-> Bool(FALSE),
      sizes             |-> Bool(FALSE),
      gitignore         |-> Bool(TRUE),
      hidden            |-> Bool(FALSE),
      depth             |-> Null,
      format            |-> Str("txt"),
      groupByType       |-> Bool(FALSE),
      timestamps        |-> Bool(FALSE),
      permissions       |-> Bool(FALSE),
      excludeEmpty      |-> Bool(FALSE),
      followSymlinks    |-> Bool(FALSE),
      gitStatus         |-> Bool(FALSE),
      color             |-> Bool(TRUE),
      ignore            |-> Arr(<< >>),
      include           |-> Arr(<< >>),
      noDefaultPatterns |-> Bool(FALSE) ]

\* the config files explored in each directory
ConfigFilesIn(d) ==
    CASE d = "mini" -> { NoConfigFile, BrokenConfigFile }
      [] d = "init" ->
           { NoConfigFile, BrokenConfigFile, ConfigFile(DEFAULT_CONFIG) }
           \cup
           { ConfigFile([ output |-> Str(o), format |-> Str(f),
                          stats  |-> Bool(b), depth  |-> n ]) :
               o \in { DEFAULT_OUTPUT, "cfg.txt", "out.txt" }, f \in Formats,
               b \in BOOLEAN,
               n \in { Null } \cup { Num(k) : k \in 0 .. MaxDepthOpt } }
      [] d = "cli"  ->
           { NoConfigFile,
             BrokenConfigFile,
             ConfigFile([ output |-> Str("cfg.txt"),
                          format |-> Str("markdown"),
                          depth  |-> Num(2),
                          stats  |-> Bool(TRUE) ]),
             ConfigFile([ stats             |-> Bool(FALSE),
                          gitignore         |-> Bool(FALSE),
                          depth             |-> Null,
                          excludeEmpty      |-> Bool(TRUE),
                          hideConfig        |-> Bool(TRUE),
                          ignore            |-> Arr(<< "b" >>),
                          noDefaultPatterns |-> Bool(TRUE) ]) }
      [] OTHER -> { NoConfigFile }

\* ConfigManager.loadConfig: the parsed object, or {} and, when reading or
\* parsing threw, a warning
loadConfig(cf) ==
    IF cf.exists /\ cf.parses
    THEN [config |-> cf.content, warnings |-> << >>]
    ELSE IF cf.exists
         THEN [config |-> << >>, warnings |-> << ConfigWarning >>]
         ELSE [config |-> << >>, warnings |-> << >>]

\* String.prototype.split(",") on the pattern lists explored
Split(csv) ==
    CASE csv = "b,c" -> << "b", "c" >>
      [] OTHER       -> << csv >>

\* [...new Set(items)]: the first occurrence of each item, in order
RECURSIVE Dedupe(_)
Dedupe(items) ==
    IF items = << >> THEN << >>
    ELSE LET front == Dedupe(SubSeq(items, 1, Len(items) - 1))
             last  == items[Len(items)]
         IN  IF last \in Range(front) THEN front ELSE Append(front, last)

\* options.x || config.x || fallback
FirstTruthy(options, cfg, optionKey, configKey, fallback) ==
    Native(Or(Or(Get(options, optionKey), Get(cfg, configKey)), fallback))

\* options.x !== undefined ? options.x : (config.x || false)
DefinedOrConfig(options, cfg, key) ==
    Native(IF Get(options, key).t # "undefined" THEN Get(options, key)
           ELSE Or(Get(cfg, key), Bool(FALSE)))

\* ConfigManager.applyConfiguration
applyConfiguration(options, cfg) ==
    LET cliIgnore     == IF Truthy(Get(options, "ignore"))
                         THEN Split(Get(options, "ignore").s) ELSE << >>
        configIgnore  == Native(Or(Get(cfg, "ignore"), Arr(<< >>)))
        cliInclude    == IF Truthy(Get(options, "include"))
                         THEN Split(Get(options, "include").s) ELSE << >>
        configInclude == Native(Or(Get(cfg, "include"), Arr(<< >>)))
        included      == Dedupe(configInclude \o cliInclude)
    IN  [ outputFile      |-> FirstTruthy(options, cfg, "output", "output",
                                          Str(DEFAULT_OUTPUT)),
          showStats       |-> DefinedOrConfig(options, cfg, "stats"),
          showFiles       |-> DefinedOrConfig(options, cfg, "files"),
          showSizes       |-> DefinedOrConfig(options, cfg, "sizes"),
          useGitignore    |-> /\ IsNotFalse(Get(options, "gitignore"))
                              /\ IsNotFalse(Get(cfg, "gitignore")),
          showHidden      |-> FirstTruthy(options, cfg, "hidden", "hidden",
                                          Bool(FALSE)),
          maxDepth        |-> FirstTruthy(options, cfg, "depth", "depth",
                                          Num(Infinity)),
          format          |-> FirstTruthy(options, cfg, "format", "format",
                                          Str("txt")),
          groupByType     |-> FirstTruthy(options, cfg, "groupByType",
                                          "groupByType", Bool(FALSE)),
          showTimestamps  |-> FirstTruthy(options, cfg, "timestamps",
                                          "timestamps", Bool(FALSE)),
          showPermissions |-> FirstTruthy(options, cfg, "permissions",
                                          "permissions", Bool(FALSE)),
          excludeEmpty    |-> FirstTruthy(options, cfg, "excludeEmpty",
                                          "excludeEmpty", Bool(FALSE)),
          followSymlinks  |-> FirstTruthy(options, cfg, "followSymlinks",
                                          "followSymlinks", Bool(FALSE)),
          showGitStatus   |-> FirstTruthy(options, cfg, "gitStatus",
                                          "gitStatus", Bool(FALSE)),
          colorFile       |-> Native(Or(Get(options, "colorFile"), Bool(FALSE))),
          colorTerminal   |-> /\ IsNotFalse(Get(options, "color"))
                              /\ IsNotFalse(Get(cfg, "color")),
          hideConfig      |-> Native(Or(Get(cfg, "hideConfig"), Bool(FALSE))),
          file            |-> /\ IsNotFalse(Get(options, "file"))
                              /\ IsNotFalse(Get(cfg, "file")),
          ignorePatterns  |-> Dedupe(configIgnore \o cliIgnore)
                              \o (IF /\ ~Truthy(Get(options, "noDefaultPatterns"))
                                     /\ ~Truthy(Get(cfg, "noDefaultPatterns"))
                                  THEN DEFAULT_IGNORE ELSE << >>),
          includePatterns |-> IF included = << >> THEN << "**/*" >>
                              ELSE included ]

\* ------------------------------------------------------------------------
\* Analyzer.setupIgnorePatterns and the ignore instance
\* ------------------------------------------------------------------------

\* the .gitignore of the working directory: absent, present but unreadable
\* (readFileSync throws), or present with its lines
NoGitignore == [exists |-> FALSE, readable |-> FALSE, lines |-> << >>]

UnreadableGitignore == [exists |-> TRUE, readable |-> FALSE, lines |-> << >>]

Gitignore(lines) == [exists |-> TRUE, readable |-> TRUE, lines |-> lines]

\* the .gitignore files explored in each directory
GitignoreFilesIn(d) ==
    CASE d = "mini" -> { NoGitignore, UnreadableGitignore }
      [] d = "cli"  -> { NoGitignore, UnreadableGitignore,
                         Gitignore(<< "!repostruc-output.txt" >>) }
      [] OTHER      -> { NoGitignore }

\* setupIgnorePatterns: the rules added to this.ig, in order, and the
\* errors pushed; a throw leaves the rules added before it
setupIgnorePatterns(o, gitignore) ==
    IF o.useGitignore /\ gitignore.exists /\ ~gitignore.readable
    THEN [ ig |-> << >>, errors |-> << SetupError >> ]
    ELSE [ ig |-> (IF o.useGitignore /\ gitignore.exists
                   THEN gitignore.lines ELSE << >>)
                  \o o.ignorePatterns
                  \o << o.outputFile >>
                  \o (IF o.hideConfig THEN << CONFIG_FILE >> ELSE << >>),
           errors |-> << >> ]

\* the outcomes of new Analyzer(settings) in a directory
SetupResults(d, o) ==
    { setupIgnorePatterns(o, g) : g \in GitignoreFilesIn(d) }

\* a rule that re-includes (leading "!"), among the rules explored
IsNegation(rule) == rule = "!repostruc-output.txt"

\* the pattern of a rule, without the leading "!"
PatternOf(rule) == IF IsNegation(rule) THEN "repostruc-output.txt" ELSE rule

\* the pattern matches the path.  On the paths explored, a pattern matches
\* exactly when it is the name of one of the path's segments (a pattern
\* without slash or wildcard matches at every level and covers what lies
\* below); no other pattern in use matches any of them
Matches(pattern, path) == pattern \in Range(path)

\* ig.ignores(path): the last rule that matches decides
Ignores(rules, path) ==
    LET matching == { i \in DOMAIN rules : Matches(PatternOf(rules[i]), path) }
    IN  /\ matching # {}
        /\ ~IsNegation(rules[CHOOSE i \in matching :
                               \A j \in matching : j <= i])

\* files.filter(file => !this.ig.ignores(file))
FilterIgnored(walked, rules) ==
    LET Kept(file) == ~Ignores(rules, file)
    IN  SelectSeq(walked, Kept)

\* the values of GIT_STATUS_MAP, and parseGitStatus's 'unknown'
GitStatuses ==
    { "modified", "added", "deleted", "renamed", "copied", "untracked",
      "ignored", "unknown" }

\* getGitStatus(): a status map, or a rejection
GitStatusResults(d) ==
    { [ok |-> FALSE, map |-> << >>],
      [ok |-> TRUE,  map |-> << >>],
      [ok |-> TRUE,  map |-> [p \in { <<"a">> } |-> "modified"]],
      [ok |-> TRUE,  map |-> [p \in { <<"a">> } |-> "copied"]] }

\* a query of the git status made although the display flag is off
queryGitStatus_Unguarded(o, git) ==
    IF git.ok
    THEN [ gitStatus |-> git.map, warnings |-> << >>, query |-> "ok" ]
    ELSE [ gitStatus |-> << >>, warnings |-> << GitWarning >>,
           query |-> "failed" ]

\* let gitStatus = {}; if (showGitStatus) try { gitStatus = await
\* getGitStatus() } catch { warnings.push(error.message) }
queryGitStatus(o, git) ==
    IF ~o.showGitStatus
    THEN [ gitStatus |-> << >>, warnings |-> << >>, query |-> "none" ]
    ELSE IF git.ok
    THEN [ gitStatus |-> git.map, warnings |-> << >>, query |-> "ok" ]
    ELSE [ gitStatus |-> << >>, warnings |-> << GitWarning >>,
           query |-> "failed" ]

\* gitStatus[file] || null
GitStatusOf(map, file) == IF file \in DOMAIN map THEN map[file] ELSE "null"

\* ------------------------------------------------------------------------
\* State after new RepoStructure(options)
\* ------------------------------------------------------------------------

InitIn(d) ==
    /\ dir = d
    /\ argv \in ArgvIn(d)
    /\ configFile \in ConfigFilesIn(d)
    /\ console = << >>
    /\ exitCode = 0
    /\ config = loadConfig(configFile).config
    /\ configWarnings = loadConfig(configFile).warnings
    /\ settings = applyConfiguration(ParseArgs(argv), config)
    /\ rsErrors = << >>
    /\ rsWarnings = configWarnings
    /\ pc = "ready"
    /\ ig = << >>
    /\ errors = << >>
    /\ warnings = << >>
    /\ gitQuery = "none"
    /\ gitStatus = << >>
    /\ files = << >>
    /\ idx = 1
    /\ stats = EmptyStats(0, 0)
    /\ structureMap = << >>
    /\ fileInfoMap = << >>
    /\ statFailed = {}
    /\ droppedEmpty = {}
    /\ output = << >>
    /\ calls = 0
    /\ savedFile = << >>
    /\ stdout = << >>
    /\ chalkColors \in (IF d = "save" THEN BOOLEAN ELSE { TRUE })
    /\ Truthy(argv.noColor) => ~chalkColors   \* chalk reads --no-color itself

Init == InitIn("repo")

InitFlat == InitIn("flat")

InitMini == InitIn("mini")

InitCli == InitIn("cli")

InitTree == InitIn("tree")

\* ------------------------------------------------------------------------
\* RepoStructure.analyze / Analyzer.analyze
\* ------------------------------------------------------------------------

\* new Analyzer(settings), the git status query, the Walker and the ignore
\* filter, the fresh stats record and maps
AnalyzeStart ==
    /\ pc = "ready"
    /\ \E setup \in SetupResults(dir, settings), git \in GitStatusResults(dir),
          walked \in WalkerResults(dir) :
         /\ ig' = setup.ig
         /\ errors' = setup.errors
         /\ settings.showGitStatus \/ git = [ok |-> TRUE, map |-> << >>]
         /\ gitQuery' = queryGitStatus(settings, git).query
         /\ gitStatus' = queryGitStatus(settings, git).gitStatus
         /\ warnings' = queryGitStatus(settings, git).warnings
         /\ files' = FilterIgnored(walked, setup.ig)
         /\ stats' = EmptyStats(Len(errors'), Len(warnings'))
    /\ structureMap' = << >>
    /\ fileInfoMap' = << >>
    /\ statFailed' = {}
    /\ droppedEmpty' = {}
    /\ idx' = 1
    /\ calls' = calls + 1
    /\ pc' = "loop"
    /\ UNCHANGED << chalkColors, savedFile, stdout, configFile, console,
                    exitCode, dir, argv, config, configWarnings, settings,
                    rsErrors, rsWarnings, output >>

\* a loop in which a stat rejection ends the analysis without a result
StatFails_Aborts ==
    /\ pc = "loop"
    /\ idx <= Len(files)
    /\ \E st \in StatResults(dir, files[idx], files) : ~st.ok
    /\ pc' = "exited"
    /\ UNCHANGED << chalkColors, savedFile, stdout, calls, configFile,
                    console, exitCode, dir, argv, config, configWarnings,
                    settings, rsErrors, rsWarnings, ig, errors, warnings,
                    gitQuery, gitStatus, files, idx, stats, structureMap,
                    fileInfoMap, statFailed, droppedEmpty, output >>

\* one loop iteration: stat rejects, the warning is recorded, continue
StatFails ==
    /\ pc = "loop"
    /\ idx <= Len(files)
    /\ \E st \in StatResults(dir, files[idx], files) :
         /\ ~st.ok
         /\ warnings' = Append(warnings, StatWarning(files[idx]))
         /\ statFailed' = statFailed \cup { files[idx] }
    /\ idx' = idx + 1
    /\ UNCHANGED << chalkColors, savedFile, stdout, calls, configFile,
                    console, exitCode, dir, argv, config, configWarnings,
                    settings, rsErrors, rsWarnings, pc, ig, errors, gitQuery,
                    gitStatus, files, stats, structureMap, fileInfoMap,
                    droppedEmpty, output >>

\* one loop iteration: excludeEmpty, a directory, readdir lists nothing,
\* continue
SkipEmptyDir ==
    /\ pc = "loop"
    /\ idx <= Len(files)
    /\ settings.excludeEmpty
    /\ \E st \in StatResults(dir, files[idx], files),
          listing \in ReaddirResults(files[idx], files) :
         /\ st.ok
         /\ st.isDirectory
         /\ listing = "empty"
         /\ droppedEmpty' = droppedEmpty \cup { files[idx] }
    /\ idx' = idx + 1
    /\ UNCHANGED << chalkColors, savedFile, stdout, calls, configFile,
                    console, exitCode, dir, argv, config, configWarnings,
                    settings, rsErrors, rsWarnings, pc, ig, errors, warnings,
                    gitQuery, gitStatus, files, stats, structureMap,
                    fileInfoMap, statFailed, output >>

\* the Entry of an accepted path
FileInfo(file, st, git) ==
    [ path        |-> file,
      size        |-> st.size,
      isDirectory |-> st.isDirectory,
      modified    |-> st.mtime,
      permissions |-> st.mode,
      isSymlink   |-> FALSE,
      gitStatus   |-> GitStatusOf(git, file) ]

\* one loop iteration: the entry is accepted (a failing readdir only adds a
\* warning): Entry, statistics, structure tree
AcceptEntry ==
    /\ pc = "loop"
    /\ idx <= Len(files)
    /\ \E st \in StatResults(dir, files[idx], files),
          listing \in ReaddirResults(files[idx], files) :
         /\ st.ok
         /\ IF settings.excludeEmpty /\ st.isDirectory
            THEN /\ listing # "empty"
                 /\ warnings' = IF listing = "error"
                                THEN Append(warnings, ReaddirWarning(files[idx]))
                                ELSE warnings
            ELSE /\ listing = "entries"
                 /\ warnings' = warnings
         /\ fileInfoMap' = MapSet(fileInfoMap, files[idx],
                                  FileInfo(files[idx], st, gitStatus))
         /\ stats' = UpdateStats(stats, files[idx], st.isDirectory, st.size)
         /\ structureMap' = InsertPath(structureMap, files[idx], 1)
    /\ idx' = idx + 1
    /\ UNCHANGED << chalkColors, savedFile, stdout, calls, configFile,
                    console, exitCode, dir, argv, config, configWarnings,
                    settings, rsErrors, rsWarnings, pc, ig, errors, gitQuery,
                    gitStatus, files, statFailed, droppedEmpty, output >>

\* the loop is over: analyze returns and RepoStructure.analyze merges the
\* diagnostics
AnalyzeReturn ==
    /\ pc = "loop"
    /\ idx > Len(files)
    /\ rsErrors' = errors
    /\ rsWarnings' = rsWarnings \o warnings
    /\ pc' = "analyzed"
    /\ UNCHANGED << chalkColors, savedFile, stdout, calls, configFile,
                    console, exitCode, dir, argv, config, configWarnings,
                    settings, ig, errors, warnings, gitQuery, gitStatus,
                    files, idx, stats, structureMap, fileInfoMap, statFailed,
                    droppedEmpty, output >>

\* ------------------------------------------------------------------------
\* utils.js: sortEntries, formatBytes
\* ------------------------------------------------------------------------

\* the names of the explored directories in String.prototype.localeCompare
\* order
NameOrder ==
    << "a", "b", "c", "f01.js", "f02.MD", "f03", "f04.xyz", "f05.js",
       "f06.png", "f07.md", "f08.JS", "f09", "f10.zip", "f11.js", "f12.css",
       "f13.md", "out.txt", "repostruc-output.txt" >>

NameIndex(name) == CHOOSE i \in DOMAIN NameOrder : NameOrder[i] = name

\* nameA.localeCompare(nameB)
LocaleCompare(nameA, nameB) ==
    IF NameIndex(nameA) < NameIndex(nameB) THEN -1
    ELSE IF NameIndex(nameA) > NameIndex(nameB) THEN 1
    ELSE 0

\* fileInfoMap.get(p) is defined
HasInfo(infos, p) == p \in DOMAIN infos

\* fileInfo && fileInfo.isDirectory
IsDirInfo(infos, p) == HasInfo(infos, p) /\ infos[p].isDirectory

\* the comparator of sortEntries
CompareEntries(nameA, nameB, infos, parentPath) ==
    LET pathA == Append(parentPath, nameA)
        pathB == Append(parentPath, nameB)
    IN  IF /\ HasInfo(infos, pathA)
           /\ HasInfo(infos, pathB)
           /\ infos[pathA].isDirectory
           /\ ~infos[pathB].isDirectory
        THEN -1
        ELSE IF /\ HasInfo(infos, pathA)
                /\ HasInfo(infos, pathB)
                /\ ~infos[pathA].isDirectory
                /\ infos[pathB].isDirectory
             THEN 1
             ELSE LocaleCompare(nameA, nameB)

\* insertion of one name into a list sorted by the comparator
RECURSIVE InsertEntry(_, _, _, _)
InsertEntry(sorted, name, infos, parentPath) ==
    IF sorted = << >> THEN << name >>
    ELSE IF CompareEntries(sorted[Len(sorted)], name, infos, parentPath) <= 0
         THEN Append(sorted, name)
         ELSE Append(InsertEntry(SubSeq(sorted, 1, Len(sorted) - 1), name,
                                 infos, parentPath),
                     sorted[Len(sorted)])

RECURSIVE SortByComparator(_, _, _)
SortByComparator(entries, infos, parentPath) ==
    IF entries = << >> THEN << >>
    ELSE InsertEntry(SortByComparator(SubSeq(entries, 1, Len(entries) - 1),
                                      infos, parentPath),
                     entries[Len(entries)], infos, parentPath)

PermutationsOf(entries) ==
    { s \in DistinctSeqs(Range(entries), Len(entries)) : Len(s) = Len(entries) }

\* the comparator agrees with the positions of every pair of the list.  A
\* list sorted by insertion has this property exactly when the comparator
\* is a consistent comparator (ECMAScript 23.1.3.30.2) on its elements,
\* i.e. orders them transitively
OrderedByComparator(sorted, infos, parentPath) ==
    \A i \in DOMAIN sorted, j \in DOMAIN sorted :
        i < j => CompareEntries(sorted[i], sorted[j], infos, parentPath) < 0

\* sortEntries: entries.sort(comparator).  With a consistent comparator the
\* result is the one sorted order; with an inconsistent one the order is
\* implementation-defined, any permutation of the entries
sortEntries(entries, infos, parentPath) ==
    LET sorted == SortByComparator(entries, infos, parentPath)
    IN  IF OrderedByComparator(sorted, infos, parentPath)
        THEN { sorted }
        ELSE PermutationsOf(entries)

\* 1024^k
RECURSIVE Pow1024(_)
Pow1024(k) == IF k = 0 THEN 1 ELSE 1024 * Pow1024(k - 1)

Units == << "B", "KB", "MB", "GB", "TB" >>

\* the unit index the while loop of formatBytes stops at
RECURSIVE UnitIndex(_, _)
UnitIndex(bytes, k) ==
    IF bytes >= 1024 * Pow1024(k) /\ k < Len(Units) - 1
    THEN UnitIndex(bytes, k + 1)
    ELSE k

\* formatBytes: size.toFixed(2) in hundredths, and the unit
formatBytes(bytes) ==
    LET k == UnitIndex(bytes, 0)
    IN  [ hundredths |-> (bytes * 200 + Pow1024(k)) \div (2 * Pow1024(k)),
          unit       |-> Units[k + 1] ]

\* formatPermissions: (mode & 0o777).toString(8).padStart(3, '0'), as its
\* three octal digits
formatPermissions(mode) ==
    LET perms == mode % 512
    IN  << perms \div 64, (perms \div 8) % 8, perms % 8 >>

\* formatTimestamp: date.toISOString().split('T')[0]
formatTimestamp(date) == date.date

\* ------------------------------------------------------------------------
\* The structure tree as the formatters read it
\* ------------------------------------------------------------------------

\* Array.from(map.entries()) of the sub-map at parentPath: the child names
\* in insertion order
Children(map, parentPath) ==
    LET IsChild(node) == Len(node) = Len(parentPath) + 1
                         /\ Parent(node) = parentPath
        nodes == SelectSeq(map, IsChild)
    IN  [ i \in DOMAIN nodes |-> Basename(nodes[i]) ]

\* the nodes that have a sub-map to sort: the root and every node with
\* children
SortedGroups(map) ==
    { << >> } \cup { Parent(map[i]) : i \in DOMAIN map }

\* one outcome of every sortEntries call a traversal of the tree can make
SortChoices(map, infos) ==
    LET groups  == SortedGroups(map)
        choices == UNION { sortEntries(Children(map, g), infos, g) : g \in groups }
    IN  { ord \in [groups -> choices] :
            \A g \in groups : ord[g] \in sortEntries(Children(map, g), infos, g) }

\* ------------------------------------------------------------------------
\* TextFormatter
\* ------------------------------------------------------------------------

\* the placeholder chalk.gray('...') / *...*
Ellipsis == "..."

\* !showStats && !showFiles && !showSizes && !showTimestamps &&
\* !showPermissions && !showGitStatus
SimpleFormat(o) ==
    /\ ~o.showStats
    /\ ~o.showFiles
    /\ ~o.showSizes
    /\ ~o.showTimestamps
    /\ ~o.showPermissions
    /\ ~o.showGitStatus

\* the one-letter badge of the text tree
TextGitBadge(status) ==
    CASE status = "modified"  -> "M"
      [] status = "added"     -> "A"
      [] status = "deleted"   -> "D"
      [] status = "untracked" -> "?"
      [] status = "renamed"   -> "R"
      [] OTHER                -> "?"

\* the extras of one line of the detailed text tree, in the order pushed
TextExtras(o, infos, currentPath) ==
    IF ~HasInfo(infos, currentPath) THEN << >>
    ELSE LET info == infos[currentPath]
         IN  (IF o.showSizes /\ ~info.isDirectory
              THEN << << "size", formatBytes(info.size) >> >> ELSE << >>)
             \o (IF o.showTimestamps
                 THEN << << "date", formatTimestamp(info.modified) >> >> ELSE << >>)
             \o (IF o.showPermissions
                 THEN << << "perms", formatPermissions(info.permissions) >> >>
                 ELSE << >>)
             \o (IF o.showGitStatus /\ info.gitStatus # "null"
                 THEN << << "git", TextGitBadge(info.gitStatus) >> >> ELSE << >>)
             \o (IF info.isSymlink THEN << << "symlink", "->" >> >> ELSE << >>)

\* one line of a text tree: `${prefix}${branch}${displayName}`, the prefix
\* as its sequence of PIPE / SPACE cells
TextLine(prefix, isLast, text, extras) ==
    [ prefix |-> prefix,
      branch |-> IF isLast THEN "LAST_BRANCH" ELSE "BRANCH",
      text   |-> text,
      extras |-> extras ]

NewPrefix(prefix, isLast) == Append(prefix, IF isLast THEN "SPACE" ELSE "PIPE")

\* a formatter that descends one level too far
Descends_AtMaxDepth(depth, maxDepth) == depth <= maxDepth

\* if (depth < this.options.maxDepth): the tree formatters descend into the
\* sub-map
Descends(depth, maxDepth) == depth < maxDepth

\* generateSimpleStructureText: the lines for the sorted entries from index
\* i on, each followed by the lines of its sub-map while depth < maxDepth
RECURSIVE SimpleFrom(_, _, _, _, _, _, _)
SimpleFrom(map, infos, ord, o, prefix, parentPath, i) ==
    LET sortedEntries == ord[parentPath]
    IN  IF i > Len(sortedEntries) THEN << >>
        ELSE LET name        == sortedEntries[i]
                 isLast      == i = Len(sortedEntries)
                 currentPath == Append(parentPath, name)
                 depth       == Len(currentPath)
                 below       == IF Children(map, currentPath) # << >>
                                   /\ Descends(depth, o.maxDepth)
                                THEN SimpleFrom(map, infos, ord, o,
                                                NewPrefix(prefix, isLast),
                                                currentPath, 1)
                                ELSE << >>
             IN  << TextLine(prefix, isLast, name, << >>) >> \o below
                 \o SimpleFrom(map, infos, ord, o, prefix, parentPath, i + 1)

generateSimpleStructureText(map, infos, ord, o) ==
    SimpleFrom(map, infos, ord, o, << >>, << >>, 1)

\* generateStructureText: as above with the extras, and the placeholder
\* line when depth === maxDepth
RECURSIVE DetailedFrom(_, _, _, _, _, _, _)
DetailedFrom(map, infos, ord, o, prefix, parentPath, i) ==
    LET sortedEntries == ord[parentPath]
    IN  IF i > Len(sortedEntries) THEN << >>
        ELSE LET name        == sortedEntries[i]
                 isLast      == i = Len(sortedEntries)
                 currentPath == Append(parentPath, name)
                 depth       == Len(currentPath)
                 below       == IF Children(map, currentPath) = << >> THEN << >>
                                ELSE IF Descends(depth, o.maxDepth)
                                THEN DetailedFrom(map, infos, ord, o,
                                                  NewPrefix(prefix, isLast),
                                                  currentPath, 1)
                                ELSE IF depth = o.maxDepth
                                THEN << TextLine(NewPrefix(prefix, isLast), FALSE,
                                                 Ellipsis, << >>) >>
                                ELSE << >>
             IN  << TextLine(prefix, isLast, name,
                             TextExtras(o, infos, currentPath)) >> \o below
                 \o DetailedFrom(map, infos, ord, o, prefix, parentPath, i + 1)

generateStructureText(map, infos, ord, o) ==
    DetailedFrom(map, infos, ord, o, << >>, << >>, 1)

\* the "Files by Category" / "Files by Extension" lines of a statistics
\* block, one per key (their order is left out)
TallyLines(tally) ==
    { [ key   |-> k,
        count |-> tally[k].count,
        size  |-> formatBytes(tally[k].size) ] : k \in DOMAIN tally }

\* the "Largest Files" lines
LargestLines(largest) ==
    [ i \in DOMAIN largest |->
        [ path |-> largest[i].path, size |-> formatBytes(largest[i].size) ] ]

\* TextFormatter.generateStats / the Statistics section of Markdown
StatsBlock(st) ==
    [ totalFiles   |-> st.totalFiles,
      totalDirs    |-> st.totalDirs,
      totalSize    |-> formatBytes(st.totalSize),
      byCategory   |-> TallyLines(st.byCategory),
      byExtension  |-> TallyLines(st.byExtension),
      largestFiles |-> LargestLines(st.largestFiles) ]

\* the default comparison of Array.prototype.sort on the path strings of the
\* explored directories: segment by segment, a path before its extensions
RECURSIVE PathBefore(_, _)
PathBefore(p, q) ==
    IF p = << >> THEN q # << >>
    ELSE IF q = << >> THEN FALSE
    ELSE IF p[1] # q[1] THEN NameIndex(p[1]) < NameIndex(q[1])
    ELSE PathBefore(Tail(p), Tail(q))

RECURSIVE InsertPathString(_, _)
InsertPathString(sorted, p) ==
    IF sorted = << >> THEN << p >>
    ELSE IF ~PathBefore(p, sorted[Len(sorted)])
         THEN Append(sorted, p)
         ELSE Append(InsertPathString(SubSeq(sorted, 1, Len(sorted) - 1), p),
                     sorted[Len(sorted)])

\* files.sort()
RECURSIVE SortPaths(_)
SortPaths(fs) ==
    IF fs = << >> THEN << >>
    ELSE InsertPathString(SortPaths(SubSeq(fs, 1, Len(fs) - 1)), fs[Len(fs)])

\* the lines of the flat file list: the non-directory Entries of the sorted
\* list
FlatFileList(o, sortedFiles, infos) ==
    LET Listed(f) == HasInfo(infos, f) /\ ~infos[f].isDirectory
        listed == SelectSeq(sortedFiles, Listed)
    IN  [ i \in DOMAIN listed |->
            [ path   |-> listed[i],
              extras |-> (IF o.showSizes
                          THEN << << "size", formatBytes(infos[listed[i]].size) >> >>
                          ELSE << >>)
                         \o (IF o.showTimestamps
                             THEN << << "date",
                                        formatTimestamp(infos[listed[i]].modified) >> >>
                             ELSE << >>) ] ]

\* the grouped file list: per category (their order is left out), the
\* sorted non-directory Entries of that category
GroupedFileList(o, fs, infos) ==
    LET CategoryOfPath(f) ==
            getFileCategory(ExtName(Basename(f)))
        Listed(f) == HasInfo(infos, f) /\ ~infos[f].isDirectory
        listed == SelectSeq(fs, Listed)
        categories == { CategoryOfPath(listed[i]) : i \in DOMAIN listed }
    IN  { [ category |-> c,
            files    |->
              LET InCategory(f) == CategoryOfPath(f) = c
                  group == SortPaths(SelectSeq(listed, InCategory))
              IN  [ i \in DOMAIN group |->
                      [ path   |-> group[i],
                        extras |-> IF o.showSizes
                                   THEN << << "size",
                                              formatBytes(infos[group[i]].size) >> >>
                                   ELSE << >> ] ] ] : c \in categories }

\* TextFormatter.generateFileList
generateFileList(o, fs, infos) ==
    IF o.groupByType
    THEN [ grouped |-> TRUE,  lines |-> GroupedFileList(o, fs, infos) ]
    ELSE [ grouped |-> FALSE, lines |-> FlatFileList(o, SortPaths(fs), infos) ]

\* what generateFileList leaves in the files array it was given: the flat
\* list sorts it in place
FilesAfterFileList(o, fs) == IF o.groupByType THEN fs ELSE SortPaths(fs)

\* TextFormatter.format.  A part that is not printed is the empty sequence,
\* a printed part is wrapped in a one-element sequence.
TextFormat(result, o, ord) ==
    IF SimpleFormat(o)
    THEN [ format   |-> "txt",
           simple   |-> TRUE,
           tree     |-> generateSimpleStructureText(result.structureMap,
                                                    result.fileInfoMap, ord, o),
           stats    |-> << >>,
           fileList |-> << >>,
           errors   |-> << >>,
           warnings |-> << >> ]
    ELSE [ format   |-> "txt",
           simple   |-> FALSE,
           tree     |-> generateStructureText(result.structureMap,
                                              result.fileInfoMap, ord, o),
           stats    |-> IF o.showStats THEN << StatsBlock(result.stats) >>
                        ELSE << >>,
           fileList |-> IF o.showFiles
                        THEN << generateFileList(o, result.files,
                                                 result.fileInfoMap) >>
                        ELSE << >>,
           errors   |-> IF Len(o.errors) > 0 \/ Len(o.warnings) > 0
                        THEN o.errors ELSE << >>,
           warnings |-> IF Len(o.errors) > 0 \/ Len(o.warnings) > 0
                        THEN o.warnings ELSE << >> ]

\* ------------------------------------------------------------------------
\* MarkdownFormatter
\* ------------------------------------------------------------------------

\* getGitStatusBadge
MarkdownGitBadge(status) ==
    CASE status = "modified"  -> "[M]"
      [] status = "added"     -> "[A]"
      [] status = "deleted"   -> "[D]"
      [] status = "untracked" -> "[?]"
      [] status = "renamed"   -> "[R]"
      [] OTHER                -> "[?]"

\* the extras of one bullet of the Markdown tree, in the order pushed
MarkdownExtras(o, infos, currentPath) ==
    IF ~HasInfo(infos, currentPath) THEN << >>
    ELSE LET info == infos[currentPath]
         IN  (IF o.showSizes /\ ~info.isDirectory
              THEN << << "size", formatBytes(info.size) >> >> ELSE << >>)
             \o (IF o.showTimestamps
                 THEN << << "date", info.modified.date >> >> ELSE << >>)
             \o (IF o.showGitStatus /\ info.gitStatus # "null"
                 THEN << << "git", MarkdownGitBadge(info.gitStatus) >> >>
                 ELSE << >>)
             \o (IF info.isSymlink THEN << << "symlink", "-> symlink" >> >>
                 ELSE << >>)

\* one bullet `${indent}- ${displayName}`: the indent as its level, the
\* style bold for **name/**, italic for *...*
MarkdownLine(level, style, text, extras) ==
    [ indent |-> level, style |-> style, text |-> text, extras |-> extras ]

\* generateMarkdownStructure
RECURSIVE MarkdownFrom(_, _, _, _, _, _, _)
MarkdownFrom(map, infos, ord, o, level, parentPath, i) ==
    LET sortedEntries == ord[parentPath]
    IN  IF i > Len(sortedEntries) THEN << >>
        ELSE LET name        == sortedEntries[i]
                 currentPath == Append(parentPath, name)
                 depth       == Len(currentPath)
                 below       == IF Children(map, currentPath) = << >> THEN << >>
                                ELSE IF Descends(depth, o.maxDepth)
                                THEN MarkdownFrom(map, infos, ord, o, level + 1,
                                                  currentPath, 1)
                                ELSE IF depth = o.maxDepth
                                THEN << MarkdownLine(level + 1, "italic",
                                                     Ellipsis, << >>) >>
                                ELSE << >>
             IN  << MarkdownLine(level,
                                 IF IsDirInfo(infos, currentPath)
                                 THEN "bold" ELSE "plain",
                                 name,
                                 MarkdownExtras(o, infos, currentPath)) >>
                 \o below
                 \o MarkdownFrom(map, infos, ord, o, level, parentPath, i + 1)

generateMarkdownStructure(map, infos, ord, o) ==
    MarkdownFrom(map, infos, ord, o, 0, << >>, 1)

\* MarkdownFormatter.format
MarkdownFormat(result, o, ord) ==
    [ format   |-> "markdown",
      simple   |-> FALSE,
      tree     |-> generateMarkdownStructure(result.structureMap,
                                             result.fileInfoMap, ord, o),
      stats    |-> IF o.showStats THEN << StatsBlock(result.stats) >> ELSE << >>,
      fileList |-> << >>,
      errors   |-> o.errors,
      warnings |-> o.warnings ]

\* ------------------------------------------------------------------------
\* JSONFormatter
\* ------------------------------------------------------------------------

\* the optional members of a node of the JSON structure
JSONOptional(o, infos, currentPath) ==
    IF ~HasInfo(infos, currentPath) THEN << >>
    ELSE LET info == infos[currentPath]
         IN  (IF o.showSizes /\ ~info.isDirectory
              THEN << << "size", info.size >> >> ELSE << >>)
             \o (IF o.showTimestamps
                 THEN << << "modified", info.modified >> >> ELSE << >>)
             \o (IF o.showPermissions
                 THEN << << "permissions", formatPermissions(info.permissions) >> >>
                 ELSE << >>)
             \o (IF o.showGitStatus /\ info.gitStatus # "null"
                 THEN << << "gitStatus", info.gitStatus >> >> ELSE << >>)

\* generateJSONStructure: map.forEach in insertion order; an object is the
\* sequence of its members in property order
RECURSIVE JSONFrom(_, _, _, _, _)
JSONFrom(map, infos, o, parentPath, i) ==
    LET entries == Children(map, parentPath)
    IN  IF i > Len(entries) THEN << >>
        ELSE LET name        == entries[i]
                 currentPath == Append(parentPath, name)
                 node ==
                   IF Children(map, currentPath) # << >>
                   THEN [ type     |-> "directory",
                          children |-> JSONFrom(map, infos, o, currentPath, 1),
                          members  |-> JSONOptional(o, infos, currentPath) ]
                   ELSE [ type     |-> IF IsDirInfo(infos, currentPath)
                                       THEN "directory" ELSE "file",
                          children |-> << >>,
                          members  |-> JSONOptional(o, infos, currentPath) ]
             IN  << << name, node >> >>
                 \o JSONFrom(map, infos, o, parentPath, i + 1)

generateJSONStructure(map, infos, o) == JSONFrom(map, infos, o, << >>, 1)

\* JSONFormatter.format
JSONFormat(result, o) ==
    [ format   |-> "json",
      simple   |-> FALSE,
      tree     |-> generateJSONStructure(result.structureMap,
                                         result.fileInfoMap, o),
      stats    |-> IF o.showStats THEN << result.stats >> ELSE << >>,
      fileList |-> << >>,
      errors   |-> o.errors,
      warnings |-> o.warnings ]

\* ------------------------------------------------------------------------
\* RepoStructure.generateOutputFromAnalysis
\* ------------------------------------------------------------------------

\* what analyze returned
AnalysisResult ==
    [ files        |-> files,
      stats        |-> stats,
      structureMap |-> structureMap,
      fileInfoMap  |-> fileInfoMap,
      gitStatus    |-> gitStatus ]

\* { ...this.settings, errors, warnings, ... }
FormatterOptions ==
    [ k \in DOMAIN settings \cup {"errors", "warnings", "colorOutput"} |->
        IF k = "errors" THEN rsErrors
        ELSE IF k = "warnings" THEN rsWarnings
        ELSE IF k = "colorOutput"
        THEN settings.colorFile \/ settings.colorTerminal
        ELSE settings[k] ]

\* getFormatter(format, options).format(analysisResult)
FormatWith(result, o, ord) ==
    CASE o.format = "json"     -> JSONFormat(result, o)
      [] o.format = "markdown" -> MarkdownFormat(result, o, ord)
      [] OTHER                 -> TextFormat(result, o, ord)

\* the text formatter's file list sorts analysisResult.files in place
FilesAfterFormat(o, fs) ==
    IF o.format \notin {"json", "markdown"} /\ ~SimpleFormat(o) /\ o.showFiles
    THEN FilesAfterFileList(o, fs)
    ELSE fs

Format ==
    /\ pc = "analyzed"
    /\ \E ord \in SortChoices(structureMap, fileInfoMap) :
         output' = FormatWith(AnalysisResult, FormatterOptions, ord)
    /\ files' = FilesAfterFormat(FormatterOptions, files)
    /\ pc' = "rendered"
    /\ UNCHANGED << chalkColors, savedFile, stdout, calls, configFile,
                    console, exitCode, dir, argv, config, configWarnings,
                    settings, rsErrors, rsWarnings, ig, errors, warnings,
                    gitQuery, gitStatus, idx, stats, structureMap,
                    fileInfoMap, statFailed, droppedEmpty >>

\* ------------------------------------------------------------------------
\* RepoStructure.saveOutput
\* ------------------------------------------------------------------------

\* whether the rendered text holds ANSI color codes.  Only the detailed
\* text tree calls chalk: for the name of every entry when colorOutput is
\* on, for every extra and for the "..." placeholder
ColorCodes(o, out, chalkOn) ==
    /\ chalkOn
    /\ out.format = "txt"
    /\ ~out.simple
    /\ \E i \in DOMAIN out.tree :
         \/ o.colorOutput /\ out.tree[i].text # Ellipsis
         \/ out.tree[i].extras # << >>
         \/ out.tree[i].text = Ellipsis

\* stripAnsi(text)
stripAnsi(text) == [ out |-> text.out, ansi |-> FALSE ]

\* this.settings.colorFile = false; this.settings.colorOutput = value
WithFileColorsOff(st, value) ==
    [ k \in DOMAIN st \cup {"colorOutput"} |->
        IF k = "colorFile" THEN FALSE
        ELSE IF k = "colorOutput" THEN value
        ELSE st[k] ]

\* saveOutput: analyze rejects (the Walker throws); saveOutput reports and
\* rethrows, the action of the program reports and exits
AnalyzeThrows ==
    /\ pc = "ready"
    /\ calls' = calls + 1
    /\ console' = console \o << << "stderr", "Error saving output:" >>,
                               << "stderr", "Error:" >> >>
    /\ exitCode' = 1
    /\ pc' = "exited"
    /\ UNCHANGED << chalkColors, savedFile, stdout, configFile, dir, argv,
                    config, configWarnings, settings, rsErrors, rsWarnings,
                    ig, errors, warnings, gitQuery, gitStatus, files, idx,
                    stats, structureMap, fileInfoMap, statFailed,
                    droppedEmpty, output >>

\* saveOutput: the colors are switched off in the settings and the output
\* for the file is generated
RenderForFile ==
    /\ pc = "analyzed"
    /\ settings' = WithFileColorsOff(settings, FALSE)
    /\ LET o == [FormatterOptions EXCEPT
                   !.colorFile = FALSE,
                   !.colorOutput = settings.colorTerminal]
       IN  /\ \E ord \in SortChoices(structureMap, fileInfoMap) :
                output' = FormatWith(AnalysisResult, o, ord)
           /\ files' = FilesAfterFormat(o, files)
    /\ pc' = "rendered"
    /\ UNCHANGED << chalkColors, savedFile, stdout, calls, configFile,
                    console, exitCode, dir, argv, config, configWarnings,
                    rsErrors, rsWarnings, ig, errors, warnings, gitQuery,
                    gitStatus, idx, stats, structureMap, fileInfoMap,
                    statFailed, droppedEmpty >>

\* saveOutput: mkdir and writeFile(outputFile, stripAnsi(fileOutput)); when
\* one of them rejects saveOutput reports and rethrows, the action of the
\* program reports and exits
WriteOutputFile ==
    /\ pc = "rendered"
    /\ \E written \in BOOLEAN :
         IF written
         THEN /\ savedFile' =
                   << stripAnsi([ out  |-> output,
                                  ansi |-> ColorCodes(FormatterOptions, output,
                                                      chalkColors) ]) >>
              /\ pc' = "saved"
              /\ UNCHANGED << console, exitCode >>
         ELSE /\ console' = console
                            \o << << "stderr", "Error saving output:" >>,
                                  << "stderr", "Error:" >> >>
              /\ exitCode' = 1
              /\ pc' = "exited"
              /\ UNCHANGED savedFile
    /\ UNCHANGED << chalkColors, stdout, calls, configFile, dir, argv,
                    config, configWarnings, settings, rsErrors, rsWarnings,
                    ig, errors, warnings, gitQuery, gitStatus, files, idx,
                    stats, structureMap, fileInfoMap, statFailed,
                    droppedEmpty, output >>

\* saveOutput: unless --no-print was given, the output is generated again
\* with the colors of the terminal, written to stdout, and stdout flushed
PrintTerminal ==
    /\ pc = "saved"
    /\ IF ParseArgs(argv).print.b
       THEN /\ settings' = WithFileColorsOff(settings, settings.colorTerminal)
            /\ \E ord \in SortChoices(structureMap, fileInfoMap) :
                 LET text == FormatWith(AnalysisResult, FormatterOptions, ord)
                 IN  stdout' = Append(stdout,
                                      [ out  |-> text,
                                        ansi |-> ColorCodes(FormatterOptions,
                                                            text, chalkColors) ])
            /\ files' = FilesAfterFormat(FormatterOptions, files)
       ELSE UNCHANGED << settings, stdout, files >>
    /\ pc' = "printed"
    /\ UNCHANGED << chalkColors, savedFile, calls, configFile, console,
                    exitCode, dir, argv, config, configWarnings, rsErrors,
                    rsWarnings, ig, errors, warnings, gitQuery, gitStatus,
                    idx, stats, structureMap, fileInfoMap, statFailed,
                    droppedEmpty, output >>

\* a saveOutput that reports the file as saved as soon as it is rendered
ReportSaved_Early ==
    /\ pc = "rendered"
    /\ console' = console \o << << "stderr", "Structure saved to" >> >>
    /\ pc' = "done"
    /\ UNCHANGED << chalkColors, savedFile, stdout, calls, configFile,
                    exitCode, dir, argv, config, configWarnings, settings,
                    rsErrors, rsWarnings, ig, errors, warnings, gitQuery,
                    gitStatus, files, idx, stats, structureMap, fileInfoMap,
                    statFailed, droppedEmpty, output >>

\* saveOutput: the setImmediate callback writes the status lines to stderr
ReportSaved ==
    /\ pc = "printed"
    /\ console' = console
                  \o << << "stderr", "Structure saved to" >> >>
                  \o (IF settings.colorTerminal /\ Len(rsErrors) > 0
                      THEN << << "stderr", "errors occurred during analysis" >> >>
                      ELSE << >>)
                  \o (IF settings.colorTerminal /\ Len(rsWarnings) > 0
                      THEN << << "stderr", "warnings during analysis" >> >>
                      ELSE << >>)
    /\ pc' = "done"
    /\ UNCHANGED << chalkColors, savedFile, stdout, calls, configFile,
                    exitCode, dir, argv, config, configWarnings, settings,
                    rsErrors, rsWarnings, ig, errors, warnings, gitQuery,
                    gitStatus, files, idx, stats, structureMap, fileInfoMap,
                    statFailed, droppedEmpty, output >>

NextAnalyze ==
    \/ AnalyzeStart
    \/ StatFails
    \/ SkipEmptyDir
    \/ AcceptEntry
    \/ AnalyzeReturn

InitSave == InitIn("save")

NextSave ==
    \/ NextAnalyze
    \/ AnalyzeThrows
    \/ RenderForFile
    \/ WriteOutputFile
    \/ PrintTerminal
    \/ ReportSaved

SpecSave == InitSave /\ [][NextSave]_vars

\* ------------------------------------------------------------------------
\* The init command
\* ------------------------------------------------------------------------

\* the lines of the init command, as pairs of the stream and the text
AlreadyExistsMessage ==
    << "log", "Configuration file .repostrucrc.json already exists." >>

\* (the text of the program starts with a check mark)
CreatedMessage ==
    << "log", "Created .repostrucrc.json with default configuration" >>

CreateErrorMessage == << "error", "Error creating config file:" >>

\* JSON.stringify(obj, null, 2), by the object the text parses to: the
\* members whose value is undefined are left out
JSONStringify(obj) ==
    [ k \in { m \in DOMAIN obj : obj[m].t # "undefined" } |-> obj[k] ]

\* fsPromises.writeFile(CONFIG_FILE, text) where no such file exists: the
\* file holds the text, or the call threw and left no file or a partial one
WriteResults(content) ==
    { [threw |-> FALSE, file |-> ConfigFile(content)],
      [threw |-> TRUE,  file |-> NoConfigFile],
      [threw |-> TRUE,  file |-> BrokenConfigFile] }

\* an init command that writes the file without looking for an existing one
initCommand_Overwrites(cf, write) ==
    IF write.threw
    THEN [ configFile |-> write.file,
           console    |-> << CreateErrorMessage >>,
           exitCode   |-> 1 ]
    ELSE [ configFile |-> write.file,
           console    |-> << CreatedMessage >>,
           exitCode   |-> 0 ]

\* initCommand: cf is the config file found, write is how writeFile ends
\* when it is called
initCommand(cf, write) ==
    IF cf.exists
    THEN [ configFile |-> cf,
           console    |-> << AlreadyExistsMessage >>,
           exitCode   |-> 0 ]
    ELSE IF write.threw
         THEN [ configFile |-> write.file,
                console    |-> << CreateErrorMessage >>,
                exitCode   |-> 1 ]
         ELSE [ configFile |-> write.file,
                console    |-> << CreatedMessage >>,
                exitCode   |-> 0 ]

\* repostruc init
InitCommandRun ==
    /\ pc = "init"
    /\ \E write \in WriteResults(JSONStringify(DEFAULT_CONFIG)) :
         /\ configFile' = initCommand(configFile, write).configFile
         /\ console' = console \o initCommand(configFile, write).console
         /\ exitCode' = initCommand(configFile, write).exitCode
    /\ pc' = "exited"
    /\ UNCHANGED << chalkColors, savedFile, stdout, calls, dir, argv, config,
                    configWarnings, settings, rsErrors, rsWarnings, ig,
                    errors, warnings, gitQuery, gitStatus, files, idx, stats,
                    structureMap, fileInfoMap, statFailed, droppedEmpty,
                    output >>

\* the process at the start of "repostruc init": no RepoStructure is built
InitCmd ==
    /\ dir = "init"
    /\ configFile \in ConfigFilesIn("init")
    /\ console = << >>
    /\ exitCode = 0
    /\ argv = Argv(<< >>)
    /\ config = << >>
    /\ configWarnings = << >>
    /\ settings = << >>
    /\ rsErrors = << >>
    /\ rsWarnings = << >>
    /\ pc = "init"
    /\ ig = << >>
    /\ errors = << >>
    /\ warnings = << >>
    /\ gitQuery = "none"
    /\ gitStatus = << >>
    /\ files = << >>
    /\ idx = 1
    /\ stats = EmptyStats(0, 0)
    /\ structureMap = << >>
    /\ fileInfoMap = << >>
    /\ statFailed = {}
    /\ droppedEmpty = {}
    /\ output = << >>
    /\ calls = 0
    /\ savedFile = << >>
    /\ stdout = << >>
    /\ chalkColors = TRUE

NextInit ==
    \/ InitCommandRun

\* ------------------------------------------------------------------------
\* The check command
\* ------------------------------------------------------------------------

\* the .gitignore files explored by the check command
CheckGitignores == { NoGitignore, UnreadableGitignore, Gitignore(<< "b" >>) }

\* checkCommand: the lines written, as pairs of the stream and the text
\* (without the check marks, the members of the configuration and the
\* number of patterns), the exit code, and whether the last check was
\* reached.  cf is the config file, gitignore the .gitignore, isGitRepo
\* whether "git status" succeeds, canWrite whether the test file can be
\* written and removed
checkCommand(cf, gitignore, isGitRepo, canWrite) ==
    LET configLines ==
            IF cf.exists
            THEN << << "log", "Configuration file found:" >>,
                    IF cf.parses
                    THEN << "log", "  Current configuration:" >>
                    ELSE << "log", "Invalid configuration file:" >> >>
            ELSE << << "log", "No configuration file found" >> >>
        gitLine ==
            IF isGitRepo THEN << "log", "Git repository detected" >>
            ELSE << "log", "Not a git repository" >>
        writeLine ==
            IF canWrite THEN << "log", "Write permissions OK" >>
            ELSE << "log", "No write permissions in current directory" >>
        started ==
            << << "log", "Checking repostruc configuration..." >> >>
            \o configLines
    IN  IF gitignore.exists /\ ~gitignore.readable
        THEN \* readFileSync(".gitignore") throws outside the inner try blocks
             [ console  |-> started
                            \o << << "log", ".gitignore file found" >>,
                                  << "error", "Error during check:" >> >>,
               exitCode |-> 1,
               complete |-> FALSE ]
        ELSE [ console  |-> started
                            \o (IF gitignore.exists
                                THEN << << "log", ".gitignore file found" >>,
                                        << "log", "active patterns" >> >>
                                ELSE << << "log", "No .gitignore file found" >> >>)
                            \o << gitLine, writeLine,
                                  << "log", "All checks complete!" >> >>,
               exitCode |-> 0,
               complete |-> TRUE ]

\* repostruc check
CheckCommandRun ==
    /\ pc = "check"
    /\ \E gitignore \in CheckGitignores, isGitRepo \in BOOLEAN,
          canWrite \in BOOLEAN :
         /\ console' = console \o checkCommand(configFile, gitignore,
                                               isGitRepo, canWrite).console
         /\ exitCode' = checkCommand(configFile, gitignore,
                                     isGitRepo, canWrite).exitCode
    /\ pc' = "exited"
    /\ UNCHANGED << chalkColors, savedFile, stdout, calls, configFile, dir,
                    argv, config, configWarnings, settings, rsErrors,
                    rsWarnings, ig, errors, warnings, gitQuery, gitStatus,
                    files, idx, stats, structureMap, fileInfoMap, statFailed,
                    droppedEmpty, output >>

\* the process at the start of "repostruc check": no RepoStructure is built
InitCheck ==
    /\ dir = "init"
    /\ configFile \in ConfigFilesIn("init")
    /\ console = << >>
    /\ exitCode = 0
    /\ argv = Argv(<< >>)
    /\ config = << >>
    /\ configWarnings = << >>
    /\ settings = << >>
    /\ rsErrors = << >>
    /\ rsWarnings = << >>
    /\ pc = "check"
    /\ ig = << >>
    /\ errors = << >>
    /\ warnings = << >>
    /\ gitQuery = "none"
    /\ gitStatus = << >>
    /\ files = << >>
    /\ idx = 1
    /\ stats = EmptyStats(0, 0)
    /\ structureMap = << >>
    /\ fileInfoMap = << >>
    /\ statFailed = {}
    /\ droppedEmpty = {}
    /\ output = << >>
    /\ calls = 0
    /\ savedFile = << >>
    /\ stdout = << >>
    /\ chalkColors = TRUE

NextCheck ==
    \/ CheckCommandRun

Next ==
    \/ NextAnalyze
    \/ Format

Spec == Init /\ [][Next]_vars

SpecFlat == InitFlat /\ [][NextAnalyze]_vars

SpecMini == InitMini /\ [][Next]_vars

SpecCli == InitCli /\ [][Next]_vars

SpecTree == InitTree /\ [][NextAnalyze]_vars

\* analyze runs on: every await of the loop settles
SpecTreeFair == SpecTree /\ WF_vars(NextAnalyze)

\* the holder of a RepoStructure instance calls analyze again after it
\* returned: the instance keeps its settings, errors and warnings
AnalyzeAgain ==
    /\ pc = "analyzed"
    /\ calls < MaxCalls
    /\ pc' = "ready"
    /\ UNCHANGED << chalkColors, savedFile, stdout, calls, configFile,
                    console, exitCode, dir, argv, config, configWarnings,
                    settings, rsErrors, rsWarnings, ig, errors, warnings,
                    gitQuery, gitStatus, files, idx, stats, structureMap,
                    fileInfoMap, statFailed, droppedEmpty, output >>

NextTwice ==
    \/ NextAnalyze
    \/ AnalyzeAgain

SpecTwice == InitCli /\ [][NextTwice]_vars

SpecInit == InitCmd /\ [][NextInit]_vars

SpecCheck == InitCheck /\ [][NextCheck]_vars

\* ------------------------------------------------------------------------
\* Properties
\* ------------------------------------------------------------------------

\* the loop of analyze is over
AnalysisDone == pc \in {"analyzed", "rendered"}

\* C1: once analyze has completed, totalFiles + totalDirs is the number of
\* accepted entries: the size of the entry map, which is the number of
\* filtered paths minus the stat failures minus the dropped empty directories
C1_CountsMatchAccepted ==
    AnalysisDone =>
        /\ stats.totalFiles + stats.totalDirs = Cardinality(DOMAIN fileInfoMap)
        /\ stats.totalFiles + stats.totalDirs =
             Len(files) - Cardinality(statFailed) - Cardinality(droppedEmpty)

\* C1 witness: an analysis is over in which one path failed stat, one empty
\* directory was dropped and one entry was accepted
C1_Witness ==
    /\ AnalysisDone
    /\ statFailed # {}
    /\ droppedEmpty # {}
    /\ stats.totalFiles + stats.totalDirs > 0

\* C2: after every loop iteration largestFiles is sorted by size in
\* non-increasing order, holds at most 10 elements, and each element is the
\* {path, size} of an accepted file Entry (no directory, no skipped path)
C2_LargestSortedBounded ==
    LET largest == stats.largestFiles
    IN  /\ Len(largest) <= LargestLimit
        /\ \A i \in 1 .. Len(largest) - 1 : largest[i].size >= largest[i + 1].size
        /\ \A i \in DOMAIN largest :
             /\ largest[i].path \in DOMAIN fileInfoMap
             /\ ~fileInfoMap[largest[i].path].isDirectory
             /\ fileInfoMap[largest[i].path].size = largest[i].size
             /\ largest[i].path \notin statFailed \cup droppedEmpty

\* C2 witness: more than 10 files were accepted, the list is full and holds
\* files of different sizes
C2_Witness ==
    /\ stats.totalFiles > LargestLimit
    /\ Len(stats.largestFiles) = LargestLimit
    /\ stats.largestFiles[1].size > stats.largestFiles[LargestLimit].size

\* C3 (as stated): with excludeEmpty, a directory dropped as empty is absent
\* from the returned path list, the structure tree, the entry map and the
\* statistics
C3_EmptyDirAbsentEverywhere ==
    (AnalysisDone /\ settings.excludeEmpty) =>
        \A p \in droppedEmpty :
            /\ p \notin Range(files)
            /\ p \notin Range(structureMap)
            /\ p \notin DOMAIN fileInfoMap
            /\ stats.totalDirs =
                 Cardinality({ q \in DOMAIN fileInfoMap : fileInfoMap[q].isDirectory })

\* the number of times a warning was recorded
Occurrences(seq, x) == Cardinality({ i \in DOMAIN seq : seq[i] = x })

\* the level of a line of a rendered tree: the cells of its prefix (text) or
\* its indent (Markdown)
Level(line) ==
    IF "prefix" \in DOMAIN line THEN Len(line.prefix) ELSE line.indent

IsEllipsis(line) == line.text = Ellipsis

\* the line a line hangs under: the last line above it one level up
ParentLine(lines, i) ==
    CHOOSE j \in 1 .. i - 1 :
        /\ Level(lines[j]) = Level(lines[i]) - 1
        /\ \A k \in j + 1 .. i - 1 : Level(lines[k]) # Level(lines[i]) - 1

\* the path a reader reconstructs for line i of a rendered tree
RECURSIVE LinePath(_, _)
LinePath(lines, i) ==
    IF Level(lines[i]) = 0 THEN << lines[i].text >>
    ELSE Append(LinePath(lines, ParentLine(lines, i)), lines[i].text)

\* the paths a text or Markdown tree lists by name
TreePaths(lines) ==
    { LinePath(lines, i) : i \in { k \in DOMAIN lines : ~IsEllipsis(lines[k]) } }

\* the paths obtained by flattening a JSON structure
RECURSIVE JSONPaths(_, _)
JSONPaths(members, parentPath) ==
    UNION { { Append(parentPath, members[i][1]) }
            \cup JSONPaths(members[i][2].children,
                           Append(parentPath, members[i][1])) :
            i \in DOMAIN members }

\* the paths a rendered output shows
RenderedPaths(out) ==
    IF out.format = "json" THEN JSONPaths(out.tree, << >>)
    ELSE TreePaths(out.tree)

\* C4 (as stated): a path whose stat failed has exactly one warning, no
\* Entry, and no node in the structure tree or in a rendered structure
C4_StatFailureSkippedEntirely ==
    \A p \in statFailed :
        /\ Occurrences(warnings, StatWarning(p)) = 1
        /\ p \notin DOMAIN fileInfoMap
        /\ p \notin Range(structureMap)
        /\ pc = "rendered" => p \notin RenderedPaths(output)

\* C5 (as stated): whatever maxDepth is, the paths of the JSON structure are
\* the paths the text tree of the same result lists
C5_JSONPathsAreTextPaths ==
    (pc = "rendered" /\ output.format = "json") =>
        \A ord \in SortChoices(structureMap, fileInfoMap) :
            /\ JSONPaths(output.tree, << >>) =
                 TreePaths(generateStructureText(structureMap, fileInfoMap,
                                                 ord, FormatterOptions))
            /\ JSONPaths(output.tree, << >>) =
                 TreePaths(generateSimpleStructureText(structureMap, fileInfoMap,
                                                       ord, FormatterOptions))

\* the case of C6: maxDepth = 1, the paths a, a/b and a/b/c were accepted and
\* the text tree was rendered
C6_Case ==
    /\ pc = "rendered"
    /\ output.format = "txt"
    /\ settings.maxDepth = 1
    /\ { <<"a">>, <<"a", "b">>, <<"a", "b", "c">> } \subseteq DOMAIN fileInfoMap

EllipsisLines(lines) == { i \in DOMAIN lines : IsEllipsis(lines[i]) }

\* C6 (as stated): the text tree shows a and its child b, shows a
\* placeholder, and never prints c
C6_ShowsImmediateChildren ==
    C6_Case =>
        /\ <<"a">> \in TreePaths(output.tree)
        /\ <<"a", "b">> \in TreePaths(output.tree)
        /\ EllipsisLines(output.tree) # {}
        /\ <<"a", "b", "c">> \notin TreePaths(output.tree)

\* C6 (amended): the text tree prints a and no other name, neither b nor c;
\* the detailed tree has exactly one placeholder line, right under a
C6_ShowsOnlyTopLevel ==
    C6_Case =>
        /\ TreePaths(output.tree) = { <<"a">> }
        /\ output.tree[1].text = "a"
        /\ ~output.simple =>
             /\ Len(output.tree) = 2
             /\ IsEllipsis(output.tree[2])
             /\ Level(output.tree[2]) = 1

\* C6 witness: the case, rendered in detailed mode
C6_Witness == C6_Case /\ ~output.simple

\* the nodes of the structure tree that have children
HasChildren(node) == Children(structureMap, node) # << >>

\* the placeholder lines hanging under a path
EllipsisUnder(lines, p) ==
    { i \in EllipsisLines(lines) : LinePath(lines, ParentLine(lines, i)) = p }

\* the lines that print a path by name
LinesOf(lines, p) ==
    { i \in DOMAIN lines : ~IsEllipsis(lines[i]) /\ LinePath(lines, i) = p }

\* C7 (as stated): in the simple text, detailed text and Markdown trees, with
\* a finite maxDepth a node of exactly maxDepth segments that has children is
\* rendered, has no descendant rendered and gets exactly one placeholder;
\* with unbounded maxDepth there is no placeholder and every node is rendered
\* exactly once
C7_TruncationInEveryTree ==
    (pc = "rendered" /\ output.format # "json") =>
        IF settings.maxDepth # Infinity
        THEN \A n \in Range(structureMap) :
                 (Len(n) = settings.maxDepth /\ HasChildren(n)) =>
                     /\ n \in TreePaths(output.tree)
                     /\ \A q \in TreePaths(output.tree) : ~IsProperPrefix(n, q)
                     /\ Cardinality(EllipsisUnder(output.tree, n)) = 1
        ELSE /\ EllipsisLines(output.tree) = {}
             /\ \A n \in Range(structureMap) :
                    Cardinality(LinesOf(output.tree, n)) = 1

\* C8 (as stated): in every rendered sibling group all directories precede
\* all non-directories (a sibling without Entry counting as a file) and
\* siblings of the same kind are in ascending name order
C8_DirectoriesFirstThenNames ==
    (pc = "rendered" /\ output.format # "json") =>
        \A i \in DOMAIN output.tree, j \in DOMAIN output.tree :
            ( /\ i < j
              /\ ~IsEllipsis(output.tree[i])
              /\ ~IsEllipsis(output.tree[j])
              /\ Parent(LinePath(output.tree, i)) = Parent(LinePath(output.tree, j)) )
            => LET x == LinePath(output.tree, i)
                   y == LinePath(output.tree, j)
               IN  /\ IsDirInfo(fileInfoMap, y) => IsDirInfo(fileInfoMap, x)
                   /\ IsDirInfo(fileInfoMap, x) = IsDirInfo(fileInfoMap, y)
                        => LocaleCompare(Basename(x), Basename(y)) < 0

\* the member names of a JSON object, in property order
MemberNames(members) == [ i \in DOMAIN members |-> members[i][1] ]

\* every object of a JSON structure lists its members in an order
\* sortEntries gives them
RECURSIVE JSONSorted(_, _)
JSONSorted(members, parentPath) ==
    /\ MemberNames(members) \in
         sortEntries(MemberNames(members), fileInfoMap, parentPath)
    /\ \A i \in DOMAIN members :
         JSONSorted(members[i][2].children, Append(parentPath, members[i][1]))

\* C9 (as stated): the JSON structure lists the children of every node in
\* the order of the shared sort contract, whatever the insertion order
C9_JSONChildrenSorted ==
    (pc = "rendered" /\ output.format = "json") => JSONSorted(output.tree, << >>)

\* C10 (as stated): every accumulated error and warning appears in the
\* rendered output, in every format and with every combination of flags
C10_DiagnosticsInEveryOutput ==
    pc = "rendered" =>
        /\ Range(errors) \subseteq Range(output.errors)
        /\ Range(configWarnings) \cup Range(warnings) \subseteq Range(output.warnings)

\* the attributes the display flags enable, with the flag of each
Attributes == {"size", "modified", "permissions", "gitStatus"}

AttributeEnabled(o, attr) ==
    CASE attr = "size"        -> o.showSizes
      [] attr = "modified"    -> o.showTimestamps
      [] attr = "permissions" -> o.showPermissions
      [] attr = "gitStatus"   -> o.showGitStatus

\* the tag the text and Markdown extras carry for an attribute
ExtraTag(attr) ==
    CASE attr = "size"        -> "size"
      [] attr = "modified"    -> "date"
      [] attr = "permissions" -> "perms"
      [] attr = "gitStatus"   -> "git"

\* a sequence of <<tag, value>> pairs has the tag / the value under the tag
HasTag(pairs, tag) == \E i \in DOMAIN pairs : pairs[i][1] = tag

TagValue(pairs, tag) == pairs[CHOOSE i \in DOMAIN pairs : pairs[i][1] = tag][2]

\* the extras of the line that prints a path
ExtrasAt(lines, p) == lines[CHOOSE i \in LinesOf(lines, p) : TRUE].extras

\* the optional members of the JSON node of a path
RECURSIVE JSONMembersAt(_, _, _)
JSONMembersAt(members, p, k) ==
    LET i == CHOOSE j \in DOMAIN members : members[j][1] = p[k]
    IN  IF k = Len(p) THEN members[i][2].members
        ELSE JSONMembersAt(members[i][2].children, p, k + 1)

\* the git statuses a badge of the text or Markdown tree can stand for
StatusesOfBadge(Badge(_), badge) == { st \in GitStatuses : Badge(st) = badge }

\* a text or Markdown extra denotes the value the JSON member carries
SameValue(attr, extra, member, Badge(_)) ==
    CASE attr = "size"        -> extra = formatBytes(member)
      [] attr = "modified"    -> extra = member.date
      [] attr = "permissions" -> extra = member
      [] attr = "gitStatus"   -> StatusesOfBadge(Badge, extra) = { member }

\* C11 (as stated): rendered from the same analysis result with the same
\* flags, the text, Markdown and JSON structures show each enabled attribute
\* of an entry either all three or none, and with the same value
C11_SameDataInEveryFormat ==
    pc = "rendered" =>
        \A ord \in SortChoices(structureMap, fileInfoMap) :
            LET o    == FormatterOptions
                text == TextFormat(AnalysisResult, o, ord).tree
                md   == MarkdownFormat(AnalysisResult, o, ord).tree
                json == JSONFormat(AnalysisResult, o).tree
            IN  \A p \in TreePaths(text) \cap TreePaths(md)
                                         \cap JSONPaths(json, << >>) :
                  \A attr \in { a \in Attributes : AttributeEnabled(o, a) } :
                    LET inText == HasTag(ExtrasAt(text, p), ExtraTag(attr))
                        inMd   == HasTag(ExtrasAt(md, p), ExtraTag(attr))
                        inJSON == HasTag(JSONMembersAt(json, p, 1), attr)
                    IN  /\ inText = inJSON
                        /\ inMd = inJSON
                        /\ inJSON =>
                             LET member == TagValue(JSONMembersAt(json, p, 1), attr)
                             IN  /\ SameValue(attr,
                                              TagValue(ExtrasAt(text, p), ExtraTag(attr)),
                                              member, TextGitBadge)
                                 /\ SameValue(attr,
                                              TagValue(ExtrasAt(md, p), ExtraTag(attr)),
                                              member, MarkdownGitBadge)

\* the option was given on the command line
GivenOnCli(option) == argv[option].t # "undefined"

\* the config file sets the key
SetInConfig(key) == Get(config, key).t \notin {"undefined", "null"}

\* the CLI value if the flag was given, else the config value if the config
\* sets it, else the default
ByPrecedence(option, cliValue, key, default) ==
    IF GivenOnCli(option) THEN cliValue
    ELSE IF SetInConfig(key) THEN Native(config[key])
    ELSE default

\* C12 (as stated): every setting is the CLI value when the flag was given,
\* else the config-file value when the config sets it, else the default
C12_CliThenConfigThenDefault ==
    /\ settings.outputFile =
         ByPrecedence("output", argv.output.s, "output", DEFAULT_OUTPUT)
    /\ settings.format =
         ByPrecedence("format", argv.format.s, "format", "txt")
    /\ settings.maxDepth =
         ByPrecedence("depth", ParseInt(argv.depth.s), "depth", Infinity)
    /\ settings.showStats = ByPrecedence("stats", TRUE, "stats", FALSE)
    /\ settings.excludeEmpty =
         ByPrecedence("excludeEmpty", TRUE, "excludeEmpty", FALSE)
    /\ settings.useGitignore =
         ByPrecedence("noGitignore", FALSE, "gitignore", TRUE)

\* C13 (as stated): with --no-default-patterns on the command line, or
\* noDefaultPatterns set in the config, no DEFAULT_IGNORE pattern is among
\* the effective ignore patterns; otherwise all of them are
C13_DefaultPatternsToggle ==
    IF GivenOnCli("noDefaultPatterns")
       \/ Truthy(Get(config, "noDefaultPatterns"))
    THEN Range(DEFAULT_IGNORE) \cap Range(settings.ignorePatterns) = {}
    ELSE Range(DEFAULT_IGNORE) \subseteq Range(settings.ignorePatterns)

\* C14 (as stated): whatever the configuration and the outcome of the filter
\* construction, the filter ignores the output file, which is in none of the
\* filtered paths, the entry map and the structure tree
C14_OutputFileAlwaysExcluded ==
    pc # "ready" =>
        /\ Ignores(ig, << settings.outputFile >>)
        /\ << settings.outputFile >> \notin Range(files)
        /\ << settings.outputFile >> \notin DOMAIN fileInfoMap
        /\ << settings.outputFile >> \notin Range(structureMap)

AcceptedFiles == { p \in DOMAIN fileInfoMap : ~fileInfoMap[p].isDirectory }

\* path.extname(file) || "(no extension)"
ExtensionOf(p) ==
    IF ExtName(Basename(p)) = "" THEN "(no extension)" ELSE ExtName(Basename(p))

\* the categories whose list holds the lower-cased extension
ListedIn(extension) ==
    { c \in DOMAIN FILE_CATEGORIES :
        ToLowerCase(extension) \in FILE_CATEGORIES[c] }

\* C16: the category of an accepted file depends on its extension only, is
\* `other` exactly when the lower-cased extension is in no FILE_CATEGORIES
\* list, is the same for extensions that differ only in case, and is `other`
\* for `(no extension)`; byCategory counts the files accordingly
C16_CategoryByLowerCasedExtension ==
    /\ \A p \in AcceptedFiles :
         /\ getFileCategory(ExtensionOf(p)) = "other"
              <=> ListedIn(ExtensionOf(p)) = {}
         /\ getFileCategory(ExtensionOf(p)) # "other"
              => getFileCategory(ExtensionOf(p)) \in ListedIn(ExtensionOf(p))
         /\ \A q \in AcceptedFiles :
              ToLowerCase(ExtensionOf(p)) = ToLowerCase(ExtensionOf(q))
                => getFileCategory(ExtensionOf(p)) = getFileCategory(ExtensionOf(q))
    /\ getFileCategory("(no extension)") = "other"
    /\ \A c \in DOMAIN FILE_CATEGORIES \cup {"other"} :
         LET members == { p \in AcceptedFiles :
                            IF c = "other" THEN ListedIn(ExtensionOf(p)) = {}
                            ELSE c \in ListedIn(ExtensionOf(p)) }
         IN  IF members = {} THEN c \notin DOMAIN stats.byCategory
             ELSE /\ c \in DOMAIN stats.byCategory
                  /\ stats.byCategory[c].count = Cardinality(members)

\* C16 witness: files with the extensions .js and .JS, .md and .MD, an
\* unlisted extension and no extension were accepted and counted
C16_Witness ==
    /\ AnalysisDone
    /\ { <<"f01.js">>, <<"f08.JS">>, <<"f02.MD">>, <<"f07.md">>, <<"f03">>,
         <<"f04.xyz">> } \subseteq AcceptedFiles
    /\ stats.byCategory["code"].count >= 2
    /\ stats.byCategory["docs"].count >= 2
    /\ stats.byCategory["other"].count >= 2

\* C17 (as stated): every Entry has a non-negative integer size, and the
\* Entry of a directory has size 0 whatever stat reports for it
C17_DirectorySizeZero ==
    \A p \in DOMAIN fileInfoMap :
        /\ fileInfoMap[p].size \in Nat
        /\ fileInfoMap[p].isDirectory => fileInfoMap[p].size = 0

\* a loop iteration that accepted its path
Accepted == pc = "loop" /\ idx' = idx + 1 /\ files[idx] \in DOMAIN fileInfoMap'

\* C18: accepting a directory Entry increments totalDirs by one and leaves
\* totalFiles, totalSize, byExtension, byCategory and largestFiles as they
\* were; accepting a file Entry leaves totalDirs as it was
C18_DirectoryTouchesOnlyTotalDirs ==
    [][ Accepted =>
          IF fileInfoMap'[files[idx]].isDirectory
          THEN /\ stats'.totalDirs = stats.totalDirs + 1
               /\ stats'.totalFiles = stats.totalFiles
               /\ stats'.totalSize = stats.totalSize
               /\ stats'.byExtension = stats.byExtension
               /\ stats'.byCategory = stats.byCategory
               /\ stats'.largestFiles = stats.largestFiles
          ELSE /\ stats'.totalDirs = stats.totalDirs
               /\ stats'.totalFiles = stats.totalFiles + 1 ]_vars

\* C18 witness: a directory was accepted right after a file, so that the
\* file statistics it must leave alone are not empty
C18_Witness ==
    /\ pc = "loop"
    /\ idx = 3
    /\ { files[1], files[2] } \subseteq DOMAIN fileInfoMap
    /\ ~fileInfoMap[files[1]].isDirectory
    /\ fileInfoMap[files[2]].isDirectory
    /\ stats.totalDirs = 1
    /\ stats.totalSize > 0

\* the position of a path in the Walker result
WalkerIndex(p) == CHOOSE i \in DOMAIN files : files[i] = p

\* the accepted files that come before a file when all of them are sorted
\* by size, largest first, files of equal size in Walker-result order
Ahead(p) ==
    { q \in AcceptedFiles :
        \/ fileInfoMap[q].size > fileInfoMap[p].size
        \/ /\ fileInfoMap[q].size = fileInfoMap[p].size
           /\ WalkerIndex(q) < WalkerIndex(p) }

\* C19: at the end of the analysis largestFiles is the first 10 elements of
\* the accepted files sorted by size descending, ties in Walker-result order
C19_LargestIsStableSortPrefix ==
    AnalysisDone =>
        /\ Len(stats.largestFiles) =
             IF Cardinality(AcceptedFiles) < LargestLimit
             THEN Cardinality(AcceptedFiles) ELSE LargestLimit
        /\ \A i \in DOMAIN stats.largestFiles :
             /\ stats.largestFiles[i].path \in AcceptedFiles
             /\ stats.largestFiles[i].size =
                  fileInfoMap[stats.largestFiles[i].path].size
             /\ Cardinality(Ahead(stats.largestFiles[i].path)) = i - 1

\* C19 witness: more than 10 files were accepted, and a file left out has
\* the size of the last file kept
C19_Witness ==
    /\ AnalysisDone
    /\ Cardinality(AcceptedFiles) > LargestLimit
    /\ Len(stats.largestFiles) = LargestLimit
    /\ \E p \in AcceptedFiles :
         /\ \A i \in DOMAIN stats.largestFiles : stats.largestFiles[i].path # p
         /\ fileInfoMap[p].size = stats.largestFiles[LargestLimit].size
    /\ stats.largestFiles[1].size > stats.largestFiles[LargestLimit].size

\* C20: init writes the default configuration when no config file exists
\* (unless the write throws: then it reports the error and exits with 1);
\* when a config file exists it leaves the file as it is, reports that it
\* exists and ends with exit code 0
C20_InitCreatesOrLeaves ==
    [][ pc = "init" =>
          IF configFile.exists
          THEN /\ configFile' = configFile
               /\ console' = console \o << AlreadyExistsMessage >>
               /\ exitCode' = 0
          ELSE \/ /\ configFile'.exists
                  /\ configFile'.parses
                  /\ configFile'.content = DEFAULT_CONFIG
                  /\ console' = console \o << CreatedMessage >>
                  /\ exitCode' = 0
               \/ /\ ~ configFile'.parses
                  /\ console' = console \o << CreateErrorMessage >>
                  /\ exitCode' = 1 ]_vars

\* C20 witness: init has run where a config file with other content than
\* the default existed
C20_Witness ==
    /\ pc = "exited"
    /\ console = << AlreadyExistsMessage >>
    /\ configFile.parses
    /\ configFile.content # DEFAULT_CONFIG

\* init has run where no config file existed, and the file now holds the
\* default configuration
C20_Created ==
    /\ pc = "exited"
    /\ console = << CreatedMessage >>
    /\ configFile.parses
    /\ configFile.content = DEFAULT_CONFIG

\* C21: the check command runs all its checks and never ends the process
\* with a failing exit code, whatever the state of the config file, the
\* .gitignore, the git repository and the write permission
C21_CheckNeverFails ==
    [][ pc = "check" =>
          /\ exitCode' = 0
          /\ console' # << >>
          /\ console'[Len(console')] = << "log", "All checks complete!" >>
      ]_vars

\* C22: when statistics are requested, the error and warning counts of the
\* statistics record are the numbers of errors and warnings the analysis
\* has accumulated when it ends
C22_StatsCountDiagnostics ==
    (AnalysisDone /\ settings.showStats) =>
        /\ stats.errors = Len(errors)
        /\ stats.warnings = Len(warnings)

\* C23: with --color-file the content saved to the output file keeps the
\* color codes of the rendered output; without it the saved file has none
C23_ColorFileKeepsCodes ==
    savedFile # << >> =>
        IF Truthy(argv.colorFile)
        THEN savedFile[1].ansi =
               ColorCodes([FormatterOptions EXCEPT !.colorOutput = TRUE],
                          savedFile[1].out, chalkColors)
        ELSE ~savedFile[1].ansi

\* the non-empty prefixes of the paths of a set
PrefixesOf(paths) ==
    UNION { { SubSeq(q, 1, i) : i \in 1 .. Len(q) } : q \in paths }

\* the tree built from the empty tree by inserting the paths of a list
RECURSIVE BuildTree(_)
BuildTree(paths) ==
    IF paths = << >> THEN << >>
    ELSE InsertPath(BuildTree(SubSeq(paths, 1, Len(paths) - 1)),
                    paths[Len(paths)], 1)

\* the paths of a list that have an Entry, in the order of the list
AcceptedInOrder(fs, infos) ==
    LET IsAccepted(q) == q \in DOMAIN infos
    IN  SelectSeq(fs, IsAccepted)

\* the nodes of the tree are the prefixes of the accepted paths, each once;
\* inserting an accepted path again changes nothing; every order of the
\* accepted paths builds the same node set
TreeIsPrefixClosure(map, infos, fs) ==
    /\ Range(map) = PrefixesOf(DOMAIN infos)
    /\ Cardinality(Range(map)) = Len(map)
    /\ \A q \in DOMAIN infos : InsertPath(map, q, 1) = map
    /\ \A order \in PermutationsOf(AcceptedInOrder(fs, infos)) :
         Range(BuildTree(order)) = Range(map)

\* C24: the nodes of the structure tree are exactly the non-empty prefixes
\* of the accepted paths, no step of the loop removes a node, inserting a
\* path twice changes nothing, and the node set does not depend on the
\* order of the Walker result
C24_PureInsertion ==
    [][ /\ pc = "loop" => Range(structureMap) \subseteq Range(structureMap')
        /\ TreeIsPrefixClosure(structureMap', fileInfoMap', files') ]_vars

\* C24 witness: a/b/c was accepted without a/b, so that the node a/b was
\* created as an intermediate node, next to another path below a
C24_Witness ==
    /\ AnalysisDone
    /\ <<"a", "b", "c">> \in DOMAIN fileInfoMap
    /\ <<"a", "b">> \notin DOMAIN fileInfoMap
    /\ <<"a", "c">> \in DOMAIN fileInfoMap
    /\ <<"a", "b">> \in Range(structureMap)

\* the paths the loop has passed, each with its one outcome
Visited == statFailed \cup droppedEmpty \cup DOMAIN fileInfoMap

\* C25: whatever stat, readdir and the git status query answer, analyze
\* ends with a result; the loop visits the filtered paths one by one in
\* Walker-result order, each exactly once, and a failure on one entry does
\* not keep the later entries from being processed
C25_AnalyzeAlwaysReturns ==
    /\ <>(pc = "analyzed")
    /\ [][ pc = "loop" /\ pc' = "loop" =>
             /\ idx' = idx + 1
             /\ files' = files
             /\ Visited' = Visited \cup { files[idx] }
             /\ files[idx] \notin Visited ]_vars
    /\ [](AnalysisDone =>
             /\ idx = Len(files) + 1
             /\ Visited = Range(files)
             /\ statFailed \cap droppedEmpty = {}
             /\ statFailed \cap DOMAIN fileInfoMap = {}
             /\ droppedEmpty \cap DOMAIN fileInfoMap = {})

\* C25 witness: the git status query failed, the stat of one path failed,
\* and a later path of the Walker result was accepted
C25_Witness ==
    /\ AnalysisDone
    /\ gitQuery = "failed"
    /\ \E i \in DOMAIN files, j \in DOMAIN files :
         /\ i < j
         /\ files[i] \in statFailed
         /\ files[j] \in DOMAIN fileInfoMap

\* the status line of saveOutput was written to stderr
SavedReported == << "stderr", "Structure saved to" >> \in Range(console)

\* saveOutput failed: it reported on stderr and rethrew
SaveFailed == << "stderr", "Error saving output:" >> \in Range(console)

\* C26: in saveOutput the analysis runs exactly once; the file is written
\* before anything goes to stdout; the status line goes to stderr only
\* after the file is written and, when printing is enabled, after stdout
\* was written and flushed; when the analysis or the file write fails
\* nothing goes to stdout, no status line is written and the error is
\* rethrown
C26_SaveThenPrintThenReport ==
    /\ calls <= 1
    /\ pc \in {"loop", "analyzed", "rendered", "saved", "printed", "done"}
         => calls = 1
    /\ stdout # << >> => savedFile # << >> /\ Len(stdout) = 1
    /\ SavedReported =>
         /\ savedFile # << >>
         /\ ParseArgs(argv).print.b => stdout # << >>
         /\ ~SaveFailed
    /\ SaveFailed =>
         /\ stdout = << >>
         /\ ~SavedReported
         /\ exitCode = 1
         /\ console[Len(console)] = << "stderr", "Error:" >>
    /\ ~ParseArgs(argv).print.b => stdout = << >>
    /\ pc = "done" => SavedReported

\* C26 witness: saveOutput is over, the file is written, the output was
\* printed and the status line written
C26_Witness ==
    /\ pc = "done"
    /\ savedFile # << >>
    /\ Len(stdout) = 1
    /\ SavedReported
    /\ fileInfoMap # << >>

\* saveOutput is over after the file write failed
C26_WriteFailed ==
    /\ pc = "exited"
    /\ SaveFailed
    /\ calls = 1
    /\ output # << >>

\* the comparator of sortEntries is antisymmetric and transitive on the
\* names of a sibling group
ConsistentOn(names, infos, parentPath) ==
    /\ \A x \in names, y \in names :
         CompareEntries(x, y, infos, parentPath)
           = 0 - CompareEntries(y, x, infos, parentPath)
    /\ \A x \in names, y \in names, z \in names :
         /\ CompareEntries(x, y, infos, parentPath) < 0
         /\ CompareEntries(y, z, infos, parentPath) < 0
         => CompareEntries(x, z, infos, parentPath) < 0

\* C27: on every sibling group of the tree (directory Entries, file Entries
\* and nodes without Entry mixed) the comparator of sortEntries is
\* antisymmetric and transitive, and sorting gives the same order for
\* every permutation of the group
C27_ComparatorConsistent ==
    AnalysisDone =>
        \A g \in SortedGroups(structureMap) :
            /\ ConsistentOn(Range(Children(structureMap, g)), fileInfoMap, g)
            /\ \A entries \in PermutationsOf(Children(structureMap, g)) :
                 SortByComparator(entries, fileInfoMap, g)
                   = SortByComparator(Children(structureMap, g), fileInfoMap, g)

\* the sum of one field (count or size) over the keys of a tally
RECURSIVE TallySum(_, _)
TallySum(tally, field) ==
    IF DOMAIN tally = {} THEN 0
    ELSE LET k == CHOOSE key \in DOMAIN tally : TRUE
         IN  tally[k][field]
               + TallySum([ j \in DOMAIN tally \ {k} |-> tally[j] ], field)

\* the sum of the sizes of the Entries at the given paths
RECURSIVE SizeSum(_, _)
SizeSum(infos, paths) ==
    IF paths = {} THEN 0
    ELSE LET p == CHOOSE q \in paths : TRUE
         IN  infos[p].size + SizeSum(infos, paths \ {p})

\* C28: during the analysis, after each accepted entry, the counts of
\* byExtension and of byCategory both add up to totalFiles, and their sizes
\* both add up to totalSize, which is the sum of the sizes of the accepted
\* file Entries
C28_AggregatesConsistent ==
    /\ TallySum(stats.byExtension, "count") = stats.totalFiles
    /\ TallySum(stats.byCategory, "count") = stats.totalFiles
    /\ TallySum(stats.byExtension, "size") = stats.totalSize
    /\ TallySum(stats.byCategory, "size") = stats.totalSize
    /\ stats.totalSize = SizeSum(fileInfoMap, AcceptedFiles)
    /\ stats.totalFiles = Cardinality(AcceptedFiles)

\* files of several extensions and categories were accepted, two of them
\* with one extension, two extensions in one category, sizes differing
C28_Witness ==
    /\ pc = "loop"
    /\ \E e \in DOMAIN stats.byExtension : stats.byExtension[e].count >= 2
    /\ Cardinality(DOMAIN stats.byCategory) >= 2
    /\ Cardinality(DOMAIN stats.byExtension) > Cardinality(DOMAIN stats.byCategory)
    /\ stats.totalFiles < stats.totalSize
    /\ stats.totalSize < stats.totalFiles * MaxSize

\* a step in which a formatter renders the analysis result: the rendering
\* for the file and the second rendering for the terminal
Renders ==
    \/ pc = "analyzed" /\ pc' = "rendered"
    \/ pc = "saved" /\ pc' = "printed"

\* C29: rendering leaves the analysis result as it was, for every format
\* and every combination of display flags: the path list with its order,
\* the statistics, the structure tree and the entry map
C29_RenderingReadOnly ==
    [][ Renders => /\ files' = files
                   /\ stats' = stats
                   /\ structureMap' = structureMap
                   /\ fileInfoMap' = fileInfoMap ]_vars

\* C30: whenever analyze has returned, after any number of calls on the
\* instance, the diagnostics handed to the formatter are those of the latest
\* analysis: its errors, and the config-loading warnings followed by its
\* warnings
C30_LatestDiagnosticsOnly ==
    pc = "analyzed" =>
        /\ FormatterOptions.errors = errors
        /\ FormatterOptions.warnings = configWarnings \o warnings

====
